---- MODULE Spec2Model ----
(***************************************************************************)
(* Model of the runtime button/page state engine of streamdeck-controller  *)
(* (src/state/app_state.rs, src/state/button.rs, src/state/page/mod.rs,    *)
(* src/state/button_position.rs, src/state/foreground_window_condition.rs).*)
(*                                                                         *)
(* Option<T> is modelled as a sequence of length at most one:              *)
(* None is <<>> and Some(x) is <<x>>.                                      *)
(***************************************************************************)
EXTENDS Integers, Sequences, FiniteSets, TLC

\* ------------------------------------------------------------------------
\* Bounds of the model
\* ------------------------------------------------------------------------

\* Rows and columns of the modelled device (StreamDeckType::num_buttons()).
DeviceRows == 2
DeviceCols == 2

\* Number of AppState operations applied after construction.
MaxSteps == 3

\* Number of button events and flushes of a recorded control-loop run.
MaxTrace == 4

\* Number of buttons of a page of the configurations construction is run on.
MaxPageButtons == 2

\* ------------------------------------------------------------------------
\* Option helpers
\* ------------------------------------------------------------------------

None == <<>>
Some(x) == <<x>>
IsSome(o) == o # <<>>
Unwrap(o) == o[1]

\* ------------------------------------------------------------------------
\* Device geometry (StreamDeckType, external crate streamdeck_hid_rs)
\* ------------------------------------------------------------------------

num_buttons == [rows |-> DeviceRows, cols |-> DeviceCols]
total_num_buttons == DeviceRows * DeviceCols
Slots == 0 .. (total_num_buttons - 1)

\* ------------------------------------------------------------------------
\* src/state/button_position.rs
\* ------------------------------------------------------------------------

\* `x as u8` on an i32: truncation to the low 8 bits.
AsU8(x) == x % 256

from_array_index(index) ==
    IF index < 0
    THEN [tag |-> "FromEnd", v |-> AsU8(-index - 1)]
    ELSE [tag |-> "FromStart", v |-> AsU8(index)]

ButtonPosition_from_config(config) ==
    [col |-> from_array_index(config.col), row |-> from_array_index(config.row)]

Min(a, b) == IF a < b THEN a ELSE b
Max(a, b) == IF a > b THEN a ELSE b

\* ButtonPosition::to_button_index without the column mirror
to_button_index_unmirrored(position, device_type) ==
    LET device_rows == device_type.rows
        device_cols == device_type.cols
        row0 == IF position.row.tag = "FromStart"
                THEN position.row.v
                ELSE device_rows - AsU8(position.row.v + 1)
        col0 == IF position.col.tag = "FromStart"
                THEN position.col.v
                ELSE device_cols - AsU8(position.col.v + 1)
        row == Min(device_rows - 1, Max(0, row0))
        col == Min(device_cols - 1, Max(0, col0))
    IN  col + row * device_cols

\* ButtonPosition::to_button_index on a device with the given num_buttons().
\* (neg + 1) is computed in u8 before the widening cast; release builds wrap.
to_button_index_on(position, device_type) ==
    LET device_rows == device_type.rows
        device_cols == device_type.cols
        row0 == IF position.row.tag = "FromStart"
                THEN position.row.v
                ELSE device_rows - AsU8(position.row.v + 1)
        col0 == IF position.col.tag = "FromStart"
                THEN device_cols - AsU8(position.col.v + 1)
                ELSE position.col.v
        row == Min(device_rows - 1, Max(0, row0))
        col == Min(device_cols - 1, Max(0, col0))
    IN  col + row * device_cols

\* The u8 additions (neg_row + 1) and (col + 1) of to_button_index overflow:
\* a build with overflow checks panics there, a build without them wraps.
to_button_index_overflows(position) ==
    \/ position.row.tag = "FromEnd" /\ position.row.v + 1 > 255
    \/ position.col.tag = "FromStart" /\ position.col.v + 1 > 255

\* to_button_index counting the slots from one
to_button_index_one_based(position) == to_button_index_on(position, num_buttons) + 1

\* ButtonPosition::to_button_index on the modelled device
to_button_index(position) == to_button_index_on(position, num_buttons)

\* ------------------------------------------------------------------------
\* src/state/button.rs
\* ------------------------------------------------------------------------

\* ButtonSetupOrName
Name(n) == [tag |-> "Name", name |-> n]
Setup(s) == [tag |-> "Setup", setup |-> s]

\* ButtonFace::from_config keeps the configured layers of the face.
ButtonFace_from_config(face_config) ==
    [color |-> face_config.color, file |-> face_config.file,
     label |-> face_config.label, sublabel |-> face_config.sublabel,
     superlabel |-> face_config.superlabel]

\* The script files of the file system; other paths cannot be read.
ScriptFiles == ("handler.py" :> "print('file')")

\* EventHandler::from_config: the code, or the content of the file.
EventHandler_from_config(config) ==
    [script |-> IF "code" \in DOMAIN config THEN config.code
                ELSE ScriptFiles[config.file]]

\* ButtonSetup::from_config_with_name / from_optional_name_config
ButtonSetup_from_config(config) ==
    [up_face |-> IF IsSome(config.up_face)
                 THEN Some(ButtonFace_from_config(Unwrap(config.up_face)))
                 ELSE None,
     down_face |-> IF IsSome(config.down_face)
                   THEN Some(ButtonFace_from_config(Unwrap(config.down_face)))
                   ELSE None,
     up_handler |-> IF IsSome(config.up_handler)
                    THEN Some(EventHandler_from_config(Unwrap(config.up_handler)))
                    ELSE None,
     down_handler |-> IF IsSome(config.down_handler)
                      THEN Some(EventHandler_from_config(Unwrap(config.down_handler)))
                      ELSE None]

\* ButtonState::empty
ButtonState_empty ==
    [setup |-> Name("empty"), press_state |-> "Up", render_state |-> None]

\* ButtonState::get_setup
get_setup(self, named_buttons) ==
    IF self.setup.tag = "Name"
    THEN IF self.setup.name \in DOMAIN named_buttons
         THEN Some(named_buttons[self.setup.name])
         ELSE None
    ELSE Some(self.setup.setup)

\* Option::and_then(|s| s.<field>.clone()) on the resolved setup
AndThenField(o, field) == IF IsSome(o) THEN Unwrap(o)[field] ELSE None

\* ButtonState::set_pressed: the new button state and the returned handler
set_pressed(self, named_buttons) ==
    LET b == [self EXCEPT !.press_state = "Down"]
    IN  [button |-> b, ret |-> AndThenField(get_setup(b, named_buttons), "down_handler")]

\* set_released that also drops the render state
set_released_invalidate(self, named_buttons) ==
    LET b == [self EXCEPT !.press_state = "Up", !.render_state = None]
    IN  [button |-> b, ret |-> AndThenField(get_setup(b, named_buttons), "up_handler")]

\* set_released that hands out the down handler
set_released_down_handler(self, named_buttons) ==
    LET b == [self EXCEPT !.press_state = "Up"]
    IN  [button |-> b, ret |-> AndThenField(get_setup(b, named_buttons), "down_handler")]

\* ButtonState::set_released
set_released(self, named_buttons) ==
    LET b == [self EXCEPT !.press_state = "Up"]
    IN  [button |-> b, ret |-> AndThenField(get_setup(b, named_buttons), "up_handler")]

\* needs_rendering that only looks for an absent render state
needs_rendering_only_when_absent(self) ==
    IF IsSome(self.render_state) THEN FALSE ELSE TRUE

\* ButtonState::needs_rendering
needs_rendering(self) ==
    IF IsSome(self.render_state)
    THEN Unwrap(self.render_state) # self.press_state
    ELSE TRUE

\* set_setup that forgets to reset the render state
set_setup_keep_render_state(self, setup) ==
    [self EXCEPT !.setup = setup]

\* set_setup that also releases the slot
set_setup_release(self, setup) ==
    [self EXCEPT !.setup = setup, !.render_state = None, !.press_state = "Up"]

\* ButtonState::set_setup (app_state.rs calls it with the occupant's name)
set_setup(self, setup) ==
    [self EXCEPT !.setup = setup, !.render_state = None]

\* set_rendered_and_get_face_for_rendering that leaves a button without
\* setup unrendered (the lookup comes before the render state is set)
set_rendered_lookup_first(self, named_buttons) ==
    IF needs_rendering(self)
    THEN LET setup == get_setup(self, named_buttons)
         IN  IF ~IsSome(setup) THEN [button |-> self, ret |-> None]
             ELSE [button |-> [self EXCEPT !.render_state = Some(self.press_state)],
                   ret |-> IF self.press_state = "Up"
                           THEN IF ~IsSome(Unwrap(setup).up_face)
                                THEN Unwrap(setup).down_face
                                ELSE Unwrap(setup).up_face
                           ELSE IF ~IsSome(Unwrap(setup).down_face)
                                THEN Unwrap(setup).up_face
                                ELSE Unwrap(setup).down_face]
    ELSE [button |-> self, ret |-> None]

\* set_rendered_and_get_face_for_rendering that returns the face of the
\* press state only, without falling back to the other face
set_rendered_without_fallback(self, named_buttons) ==
    IF needs_rendering(self)
    THEN LET b == [self EXCEPT !.render_state = Some(self.press_state)]
             setup == get_setup(b, named_buttons)
         IN  [button |-> b,
              ret |-> IF ~IsSome(setup) THEN None
                      ELSE IF b.press_state = "Up"
                           THEN Unwrap(setup).up_face
                           ELSE Unwrap(setup).down_face]
    ELSE [button |-> self, ret |-> None]

\* ButtonState::set_rendered_and_get_face_for_rendering
set_rendered_and_get_face_for_rendering(self, named_buttons) ==
    IF needs_rendering(self)
    THEN LET b == [self EXCEPT !.render_state = Some(self.press_state)]
             setup == get_setup(b, named_buttons)
         IN  [button |-> b,
              ret |-> IF ~IsSome(setup) THEN None
                      ELSE IF b.press_state = "Up"
                           THEN IF ~IsSome(Unwrap(setup).up_face)
                                THEN Unwrap(setup).down_face
                                ELSE Unwrap(setup).up_face
                           ELSE IF ~IsSome(Unwrap(setup).down_face)
                                THEN Unwrap(setup).up_face
                                ELSE Unwrap(setup).down_face]
    ELSE [button |-> self, ret |-> None]

\* ------------------------------------------------------------------------
\* src/state/foreground_window_condition.rs
\* ------------------------------------------------------------------------

\* A compiled regex is modelled by the set of strings it matches.
is_match(re, text) == text \in re

\* ForegroundWindowCondition::from_config (patterns that compile)
ForegroundWindowCondition_from_config(config) ==
    [title |-> config.title, executable |-> config.executable,
     class_name |-> config.class_name]

\* matches testing the title and the executable only
matches_without_class(self, window) ==
    LET title_matches == IF IsSome(self.title)
                         THEN is_match(Unwrap(self.title), window.title)
                         ELSE TRUE
        exec_matches == IF IsSome(self.executable)
                        THEN is_match(Unwrap(self.executable), window.executable)
                        ELSE TRUE
    IN  title_matches /\ exec_matches

\* ForegroundWindowCondition::matches
matches(self, window) ==
    LET title_matches == IF IsSome(self.title)
                         THEN is_match(Unwrap(self.title), window.title)
                         ELSE TRUE
        exec_matches == IF IsSome(self.executable)
                        THEN is_match(Unwrap(self.executable), window.executable)
                        ELSE TRUE
        class_matches == IF IsSome(self.class_name)
                         THEN is_match(Unwrap(self.class_name), window.class_name)
                         ELSE TRUE
    IN  title_matches /\ exec_matches /\ class_matches

\* ------------------------------------------------------------------------
\* src/state/page/positioned_button_setup.rs and src/state/page/mod.rs
\* ------------------------------------------------------------------------

\* HashMap::insert: a later value replaces an earlier one under the same key.
Insert(map, key, value) == (key :> value) @@ map

EmptyMap == <<>>

\* PositionedButtonSetup::from_config_with_named_button: the positioned
\* button and the named button it introduces, if any.
PositionedButtonSetup_from_config(page_name, config) ==
    LET position == ButtonPosition_from_config(config.position)
    IN  IF config.button.tag = "ButtonName"
        THEN [button |-> [position |-> position, button_name |-> config.button.name],
              named_button |-> None]
        ELSE LET setup == config.button.setup
                 button_name ==
                     IF IsSome(setup.name)
                     THEN Unwrap(setup.name)
                     ELSE "page_" \o page_name \o "_button_"
                              \o ToString(to_button_index(position))
             IN  [button |-> [position |-> position, button_name |-> button_name],
                  named_button |->
                      Some([name |-> button_name,
                            setup |-> ButtonSetup_from_config(setup)])]

RECURSIVE PageButtonsFrom(_, _, _, _, _)
\* The loop over config.buttons of Page::from_config_with_named_buttons.
PageButtonsFrom(page_name, configs, i, buttons, named) ==
    IF i > Len(configs)
    THEN [buttons |-> buttons, named_buttons |-> named]
    ELSE LET r == PositionedButtonSetup_from_config(page_name, configs[i])
         IN  PageButtonsFrom(page_name, configs, i + 1,
                 Append(buttons, r.button),
                 IF IsSome(r.named_button)
                 THEN Insert(named, Unwrap(r.named_button).name,
                             Unwrap(r.named_button).setup)
                 ELSE named)

\* Page::from_config_with_named_buttons
Page_from_config_with_named_buttons(config) ==
    LET unload_if_not_loaded ==
            IF IsSome(config.on_app)
            THEN Unwrap(config.on_app).remove = Some(TRUE)
            ELSE FALSE
        on_foreground_window ==
            IF IsSome(config.on_app)
            THEN [k \in 1 .. Len(Unwrap(config.on_app).conditions) |->
                    ForegroundWindowCondition_from_config(
                        Unwrap(config.on_app).conditions[k])]
            ELSE <<>>
        r == PageButtonsFrom(config.name, config.buttons, 1, <<>>, EmptyMap)
    IN  [page |-> [buttons |-> r.buttons,
                   on_foreground_window |-> on_foreground_window,
                   unload_if_not_loaded |-> unload_if_not_loaded],
         named_buttons |-> r.named_buttons]

RECURSIVE get_button_from(_, _, _)
get_button_from(self, button_index, i) ==
    IF i > Len(self.buttons) THEN None
    ELSE IF to_button_index(self.buttons[i].position) = button_index
         THEN Some(self.buttons[i])
         ELSE get_button_from(self, button_index, i + 1)

\* Page::get_button: the first binding that resolves to button_index
get_button(self, button_index) == get_button_from(self, button_index, 1)

\* ------------------------------------------------------------------------
\* src/state/app_state.rs
\* ------------------------------------------------------------------------

Ok(self) == [err |-> None, self |-> self]
Err(kind, name, self) == [err |-> Some([kind |-> kind, name |-> name]), self |-> self]

RECURSIVE LoadButtons(_, _, _)
\* The loop "for button in &page.buttons" of load_page.
LoadButtons(buttons, page_buttons, i) ==
    IF i > Len(page_buttons) THEN buttons
    ELSE LET idx == to_button_index(page_buttons[i].position)
         IN  LoadButtons(
                 [buttons EXCEPT ![idx] = set_setup(@, Name(page_buttons[i].button_name))],
                 page_buttons, i + 1)

\* load_page that puts the page at the bottom of the stack
load_page_push_front(self, page_name) ==
    IF page_name \notin DOMAIN self.pages
    THEN Err("PageNotFound", page_name, self)
    ELSE LET page == self.pages[page_name]
         IN  Ok([self EXCEPT
                    !.loaded_pages = <<page_name>> \o @,
                    !.buttons = LoadButtons(@, page.buttons, 1)])

\* AppState::load_page
load_page(self, page_name) ==
    IF page_name \notin DOMAIN self.pages
    THEN Err("PageNotFound", page_name, self)
    ELSE LET page == self.pages[page_name]
         IN  Ok([self EXCEPT
                    !.loaded_pages = Append(@, page_name),
                    !.buttons = LoadButtons(@, page.buttons, 1)])

\* Vec::retain(|i| i != page_name)
Retain(seq, page_name) == SelectSeq(seq, LAMBDA i : i # page_name)

RECURSIVE ReplayStack(_, _, _, _, _)
\* The loop "for stack_page_name in &self.loaded_pages" of unload_page.
ReplayStack(button, pages, loaded_pages, button_index, i) ==
    IF i > Len(loaded_pages) THEN button
    ELSE LET b == IF loaded_pages[i] \in DOMAIN pages
                  THEN get_button(pages[loaded_pages[i]], button_index)
                  ELSE None
         IN  ReplayStack(
                 IF IsSome(b) THEN set_setup(button, Name(Unwrap(b).button_name))
                 ELSE button,
                 pages, loaded_pages, button_index, i + 1)

\* unload_page that drops the top of the stack before looking the page up
unload_page_pop_first(self, page_name) ==
    IF page_name \notin DOMAIN self.pages
    THEN Err("PageNotFound", page_name,
             [self EXCEPT !.loaded_pages =
                 IF @ = <<>> THEN @ ELSE SubSeq(@, 1, Len(@) - 1)])
    ELSE LET page == self.pages[page_name]
             loaded_pages == Retain(self.loaded_pages, page_name)
         IN  Ok([self EXCEPT
                    !.loaded_pages = loaded_pages,
                    !.buttons = [button_index \in DOMAIN self.buttons |->
                        IF IsSome(get_button(page, button_index))
                        THEN ReplayStack(
                                 set_setup(self.buttons[button_index], Name("empty")),
                                 self.pages, loaded_pages, button_index, 1)
                        ELSE self.buttons[button_index]]])

\* unload_page that empties the page's slots without replaying the stack
unload_page_no_replay(self, page_name) ==
    IF page_name \notin DOMAIN self.pages
    THEN Err("PageNotFound", page_name, self)
    ELSE LET page == self.pages[page_name]
         IN  Ok([self EXCEPT
                    !.loaded_pages = Retain(@, page_name),
                    !.buttons = [button_index \in DOMAIN self.buttons |->
                        IF IsSome(get_button(page, button_index))
                        THEN set_setup(self.buttons[button_index], Name("empty"))
                        ELSE self.buttons[button_index]]])

\* AppState::unload_page
unload_page(self, page_name) ==
    IF page_name \notin DOMAIN self.pages
    THEN Err("PageNotFound", page_name, self)
    ELSE LET page == self.pages[page_name]
             loaded_pages == Retain(self.loaded_pages, page_name)
         IN  Ok([self EXCEPT
                    !.loaded_pages = loaded_pages,
                    !.buttons = [button_index \in DOMAIN self.buttons |->
                        IF IsSome(get_button(page, button_index))
                        THEN ReplayStack(
                                 set_setup(self.buttons[button_index], Name("empty")),
                                 self.pages, loaded_pages, button_index, 1)
                        ELSE self.buttons[button_index]]])

\* on_button_pressed that presses the last slot for an id beyond the slots
on_button_pressed_clamped(self, button_id) ==
    LET id == IF button_id \notin DOMAIN self.buttons
              THEN total_num_buttons - 1 ELSE button_id
        r == set_pressed(self.buttons[id], self.named_buttons)
    IN  [self |-> [self EXCEPT !.buttons[id] = r.button], ret |-> r.ret]

\* AppState::on_button_pressed
on_button_pressed(self, button_id) ==
    IF button_id \notin DOMAIN self.buttons
    THEN [self |-> self, ret |-> None]
    ELSE LET r == set_pressed(self.buttons[button_id], self.named_buttons)
         IN  [self |-> [self EXCEPT !.buttons[button_id] = r.button], ret |-> r.ret]

\* AppState::on_button_released
on_button_released(self, button_id) ==
    IF button_id \notin DOMAIN self.buttons
    THEN [self |-> self, ret |-> None]
    ELSE LET r == set_released(self.buttons[button_id], self.named_buttons)
         IN  [self |-> [self EXCEPT !.buttons[button_id] = r.button], ret |-> r.ret]

RECURSIVE RenderingFaces(_, _, _)
\* The result vector of set_rendered_and_get_rendering_faces, in slot order.
RenderingFaces(buttons, named_buttons, id) ==
    IF id \notin DOMAIN buttons THEN <<>>
    ELSE LET r == set_rendered_and_get_face_for_rendering(buttons[id], named_buttons)
         IN  (IF IsSome(r.ret) THEN <<[id |-> AsU8(id), face |-> Unwrap(r.ret)]>> ELSE <<>>)
             \o RenderingFaces(buttons, named_buttons, id + 1)

\* set_rendered_and_get_rendering_faces that does not store the rendered
\* buttons
flush_without_marking(self) ==
    [self |-> self,
     ret |-> RenderingFaces(self.buttons, self.named_buttons, 0)]

\* AppState::set_rendered_and_get_rendering_faces
set_rendered_and_get_rendering_faces(self) ==
    [self |-> [self EXCEPT !.buttons = [id \in DOMAIN self.buttons |->
                 set_rendered_and_get_face_for_rendering(
                     self.buttons[id], self.named_buttons).button]],
     ret |-> RenderingFaces(self.buttons, self.named_buttons, 0)]

RECURSIVE CollectConditions(_, _, _, _, _, _)
\* The inner loop without the unload_if_not_loaded test: a loaded page is
\* listed for unloading by every condition that does not match.
CollectConditions_ignore_flag(self, page_name, window_info, i, to_load, to_unload) ==
    LET page == self.pages[page_name]
    IN  IF i > Len(page.on_foreground_window)
        THEN [to_load |-> to_load, to_unload |-> to_unload]
        ELSE IF matches(page.on_foreground_window[i], window_info)
             THEN CollectConditions(self, page_name, window_info, i + 1,
                      Append(to_load, page_name), to_unload)
             ELSE IF \E k \in DOMAIN self.loaded_pages : self.loaded_pages[k] = page_name
                  THEN CollectConditions(self, page_name, window_info, i + 1,
                           to_load, Append(to_unload, page_name))
                  ELSE CollectConditions(self, page_name, window_info, i + 1,
                           to_load, to_unload)

\* The inner loop "for condition in &page.on_foreground_window".
CollectConditions(self, page_name, window_info, i, to_load, to_unload) ==
    LET page == self.pages[page_name]
    IN  IF i > Len(page.on_foreground_window)
        THEN [to_load |-> to_load, to_unload |-> to_unload]
        ELSE IF matches(page.on_foreground_window[i], window_info)
             THEN CollectConditions(self, page_name, window_info, i + 1,
                      Append(to_load, page_name), to_unload)
             ELSE IF page.unload_if_not_loaded
                     /\ \E k \in DOMAIN self.loaded_pages : self.loaded_pages[k] = page_name
                  THEN CollectConditions(self, page_name, window_info, i + 1,
                           to_load, Append(to_unload, page_name))
                  ELSE CollectConditions(self, page_name, window_info, i + 1,
                           to_load, to_unload)

RECURSIVE CollectPages(_, _, _, _, _, _)
\* The outer loop "for (page_name, page) in &self.pages"; order is the
\* iteration order of the HashMap.
CollectPages(self, order, window_info, i, to_load, to_unload) ==
    IF i > Len(order)
    THEN [to_load |-> to_load, to_unload |-> to_unload]
    ELSE LET r == CollectConditions(self, order[i], window_info, 1, to_load, to_unload)
         IN  CollectPages(self, order, window_info, i + 1, r.to_load, r.to_unload)

RECURSIVE LoadAll(_, _, _)
\* "for page_name in pages_to_load { self.load_page(&page_name)?; }"
LoadAll(self, names, i) ==
    IF i > Len(names) THEN Ok(self)
    ELSE LET r == load_page(self, names[i])
         IN  IF IsSome(r.err) THEN r ELSE LoadAll(r.self, names, i + 1)

RECURSIVE UnloadAll(_, _, _)
\* "for page_name in pages_to_unload { self.unload_page(&page_name)?; }"
UnloadAll(self, names, i) ==
    IF i > Len(names) THEN Ok(self)
    ELSE LET r == unload_page(self, names[i])
         IN  IF IsSome(r.err) THEN r ELSE UnloadAll(r.self, names, i + 1)

\* The iteration orders a HashMap with these keys can have.
IterationOrders(keys) ==
    {o \in [1 .. Cardinality(keys) -> keys] :
        \A i, j \in 1 .. Cardinality(keys) : i # j => o[i] # o[j]}

\* The (pages_to_load, pages_to_unload) lists the two loops of
\* on_foreground_window can build: one pair per iteration order of self.pages.
PagesToLoadAndUnload(self, window_info) ==
    {CollectPages(self, order, window_info, 1, <<>>, <<>>) :
        order \in IterationOrders(DOMAIN self.pages)}

\* on_foreground_window applying the unloads before the loads
on_foreground_window_unload_first(self, window_info, c) ==
    LET s1 == [self EXCEPT !.foreground_window = Some(window_info)]
        u == UnloadAll(s1, c.to_unload, 1)
    IN  IF IsSome(u.err) THEN u ELSE LoadAll(u.self, c.to_load, 1)

\* AppState::on_foreground_window, c being the lists its loops have built
on_foreground_window(self, window_info, c) ==
    LET s1 == [self EXCEPT !.foreground_window = Some(window_info)]
        l == LoadAll(s1, c.to_load, 1)
    IN  IF IsSome(l.err) THEN l ELSE UnloadAll(l.self, c.to_unload, 1)

RECURSIVE NamedButtonsFrom(_, _, _)
\* The loop over config.buttons of from_config: the registry, or the
\* duplicate name that stops construction.
NamedButtonsFrom(config_buttons, i, named_buttons) ==
    IF i > Len(config_buttons) THEN Ok(named_buttons)
    ELSE IF config_buttons[i].name \in DOMAIN named_buttons
         THEN Err("DuplicateNamedButton", config_buttons[i].name, named_buttons)
         ELSE NamedButtonsFrom(config_buttons, i + 1,
                  Insert(named_buttons, config_buttons[i].name,
                         ButtonSetup_from_config(config_buttons[i])))

\* The synthesized "empty" button of from_config.
EmptyButtonConfig ==
    [name |-> "empty",
     up_face |-> Some([color |-> Some("#000000"), file |-> None, label |-> None,
                       sublabel |-> None, superlabel |-> None]),
     down_face |-> None, up_handler |-> None, down_handler |-> None]

\* The synthesized "empty" button registered over a declared one.
WithEmpty_overwrite(named_buttons) ==
    Insert(named_buttons, "empty", ButtonSetup_from_config(EmptyButtonConfig))

\* The "empty" button of from_config: synthesized unless declared.
WithEmpty(named_buttons) ==
    IF "empty" \notin DOMAIN named_buttons
    THEN Insert(named_buttons, "empty", ButtonSetup_from_config(EmptyButtonConfig))
    ELSE named_buttons

RECURSIVE PagesFrom(_, _, _, _)
\* The loop over config.pages without the merge of more_named_buttons.
PagesFrom_without_merge(page_configs, i, pages, named_buttons) ==
    IF i > Len(page_configs)
    THEN {[err |-> None, pages |-> pages, named_buttons |-> named_buttons]}
    ELSE LET r == Page_from_config_with_named_buttons(page_configs[i])
             clash == DOMAIN r.named_buttons \cap DOMAIN named_buttons
         IN  IF clash # {}
             THEN {[err |-> Some([kind |-> "DuplicateNamedButton", name |-> n]),
                    pages |-> pages, named_buttons |-> named_buttons] : n \in clash}
             ELSE PagesFrom(page_configs, i + 1,
                      Insert(pages, page_configs[i].name, r.page),
                      named_buttons)

\* The loop over config.pages of from_config: the pages and the registry,
\* or every duplicate name the loop over more_named_buttons can stop at
\* (that loop visits a HashMap, so any clashing name can come first).
PagesFrom(page_configs, i, pages, named_buttons) ==
    IF i > Len(page_configs)
    THEN {[err |-> None, pages |-> pages, named_buttons |-> named_buttons]}
    ELSE LET r == Page_from_config_with_named_buttons(page_configs[i])
             clash == DOMAIN r.named_buttons \cap DOMAIN named_buttons
         IN  IF clash # {}
             THEN {[err |-> Some([kind |-> "DuplicateNamedButton", name |-> n]),
                    pages |-> pages, named_buttons |-> named_buttons] : n \in clash}
             ELSE PagesFrom(page_configs, i + 1,
                      Insert(pages, page_configs[i].name, r.page),
                      r.named_buttons @@ named_buttons)

\* AppState::from_config: the set of results construction can have.
from_config(config) ==
    LET nb == NamedButtonsFrom(IF IsSome(config.buttons)
                               THEN Unwrap(config.buttons) ELSE <<>>,
                               1, EmptyMap)
    IN  IF IsSome(nb.err) THEN {[err |-> nb.err, self |-> <<>>]}
        ELSE {IF IsSome(p.err) THEN [err |-> p.err, self |-> <<>>]
              ELSE LoadAll([named_buttons |-> p.named_buttons,
                            pages |-> p.pages,
                            buttons |-> [id \in Slots |-> ButtonState_empty],
                            init_handler |->
                                IF IsSome(config.init_script)
                                THEN Some(EventHandler_from_config(
                                              Unwrap(config.init_script)))
                                ELSE None,
                            loaded_pages |-> <<>>,
                            foreground_window |-> None],
                           IF IsSome(config.default_pages)
                           THEN Unwrap(config.default_pages) ELSE <<>>, 1)
              : p \in PagesFrom(config.pages, 1, EmptyMap, WithEmpty(nb.self))}

\* ButtonFace::empty
ButtonFace_empty ==
    [color |-> None, file |-> None, label |-> None, sublabel |-> None,
     superlabel |-> None]

\* ButtonFace::update_values: a given color and a given file replace the
\* face's; the three label updates are applied to a value moved out of
\* self.label, so the face keeps the labels it has. No face of the model has
\* a file, so draw_face returns Ok.
update_values(self, values) ==
    [self EXCEPT !.color = IF IsSome(values.color) THEN values.color ELSE @,
                 !.file = IF IsSome(values.file) THEN values.file ELSE @]

\* ButtonState::uses_button: the occupant of the slot is this name.
uses_button(self, button_name) ==
    self.setup.tag = "Name" /\ self.setup.name = button_name

\* ButtonState::set_needs_rendering
set_needs_rendering(self) == [self EXCEPT !.render_state = None]

\* The registry entry with its up face updated.
WithUpFace(button, values) ==
    [button EXCEPT !.up_face =
        Some(update_values(IF IsSome(button.up_face)
                           THEN Unwrap(button.up_face)
                           ELSE ButtonFace_empty, values))]

\* set_named_button_up_face that leaves the slots as they are
set_named_button_up_face_without_marking(self, button_name, values) ==
    IF button_name \notin DOMAIN self.named_buttons
    THEN Err("ButtonNotFound", button_name, self)
    ELSE Ok([self EXCEPT !.named_buttons[button_name] = WithUpFace(@, values)])

\* AppState::set_named_button_up_face
set_named_button_up_face(self, button_name, values) ==
    IF button_name \notin DOMAIN self.named_buttons
    THEN Err("ButtonNotFound", button_name, self)
    ELSE Ok([self EXCEPT
               !.named_buttons[button_name] = WithUpFace(@, values),
               !.buttons = [id \in DOMAIN self.buttons |->
                    IF uses_button(self.buttons[id], button_name)
                    THEN set_needs_rendering(self.buttons[id])
                    ELSE self.buttons[id]]])

\* ------------------------------------------------------------------------
\* The configuration the engine is run with
\* ------------------------------------------------------------------------

FaceConfig(color, label) ==
    [color |-> color, file |-> None, label |-> label,
     sublabel |-> None, superlabel |-> None]

AsCode(code) == [code |-> code]

\* A page button given inline, with an optional name.
InlineButton(row, col, name, up_face, down_face, up_handler, down_handler) ==
    [position |-> [row |-> row, col |-> col],
     button |-> [tag |-> "Button",
                 setup |-> [name |-> name, up_face |-> up_face,
                            down_face |-> down_face, up_handler |-> up_handler,
                            down_handler |-> down_handler]]]

\* A page button given by the name of a named button.
NamedButtonRef(row, col, name) ==
    [position |-> [row |-> row, col |-> col],
     button |-> [tag |-> "ButtonName", name |-> name]]

\* page0 binds every slot, as the default page of the tests does.
Page0Config ==
    [name |-> "page0",
     on_app |-> None,
     buttons |-> [k \in 1 .. total_num_buttons |->
        LET button_id == k - 1
            n == "page0_button" \o ToString(button_id)
        IN  InlineButton(button_id \div DeviceCols, button_id % DeviceCols,
                Some(n), Some(FaceConfig(None, Some(n))), None,
                Some(AsCode("on_" \o n \o "_up")),
                Some(AsCode("on_" \o n \o "_down")))]]

\* page1 binds the two ends of the first row; it is loaded for window
\* title "t1" of executable "e1" or "e12" and is never unloaded by a window.
Page1Config ==
    [name |-> "page1",
     on_app |-> Some([conditions |->
                        <<[title |-> Some({"t1"}),
                           executable |-> Some({"e1", "e12"}),
                           class_name |-> None]>>,
                      remove |-> None]),
     buttons |->
        <<InlineButton(0, -1, Some("page1_a"),
              Some(FaceConfig(Some("#00FF00"), None)),
              Some(FaceConfig(Some("#0000FF"), None)),
              Some(AsCode("on_page1_a_up")), Some(AsCode("on_page1_a_down"))),
          InlineButton(0, 0, Some("page1_b"),
              None, Some(FaceConfig(None, Some("page1_b"))),
              None, Some(AsCode("on_page1_b_down")))>>]

\* page2 binds the first slot to a declared named button, the last slot to a
\* name nobody declares and one more slot to an inline button without faces
\* and handlers; it has two conditions and is unloaded when not matching.
Page2Config ==
    [name |-> "page2",
     on_app |-> Some([conditions |->
                        <<[title |-> None,
                           executable |-> Some({"e2", "e12"}),
                           class_name |-> None],
                          [title |-> None,
                           executable |-> None,
                           class_name |-> Some({"c2"})]>>,
                      remove |-> Some(TRUE)]),
     buttons |->
        <<NamedButtonRef(0, -1, "named_button0"),
          NamedButtonRef(-1, 0, "ghost"),
          InlineButton(-1, -1, None, None, None, None, None)>>]

NamedButton0Config ==
    [name |-> "named_button0",
     up_face |-> Some(FaceConfig(Some("#FF0000"), None)),
     down_face |-> None,
     up_handler |-> Some(AsCode("on_named_button0_up")),
     down_handler |-> Some(AsCode("on_named_button0_down"))]

Config(default_pages) ==
    [buttons |-> Some(<<NamedButton0Config>>),
     pages |-> <<Page0Config, Page1Config, Page2Config>>,
     init_script |-> None,
     default_pages |-> default_pages]

\* The default_pages settings the engine is started with.
DefaultPagesChoices == {None, Some(<<"page0">>)}

\* The foreground windows the watcher reports.
Windows ==
    {[title |-> "t1", executable |-> "e1", class_name |-> "c_"],
     [title |-> "t_", executable |-> "e2", class_name |-> "c2"],
     [title |-> "t_", executable |-> "e2", class_name |-> "c_"],
     [title |-> "t1", executable |-> "e12", class_name |-> "c2"],
     [title |-> "t_", executable |-> "e_", class_name |-> "c_"]}

\* The page names load_page and unload_page are called with.
PageNameArgs == {"page0", "page1", "page2", "unknown_page"}

\* The button ids press and release events carry: the first slot, the last
\* slot and the first index that is out of range.
ButtonIdArgs == {0, total_num_buttons - 1, total_num_buttons}

\* ------------------------------------------------------------------------
\* State machine: the AppState and the outcome of the last call on it
\* ------------------------------------------------------------------------

VARIABLES
    app_state,  \* the AppState struct
    result,     \* the last call: operation, arguments and returned value
    steps,      \* number of calls made since construction
    trace,      \* the calls made so far (recorded by TraceSpec and LoopSpec)
    receiver,   \* the events in the channel of main, oldest first
    sent,       \* every event the producer threads have sent, in order
    pc,         \* the position of the control thread in the loop of main
    handler,    \* the local "handler" of the loop of main
    target_os,  \* the platform the foreground_window module is built for
    active_window,  \* the window the desktop has in the foreground, 0 for none
    observers,  \* the threads that call foreground_window_observer
    WINDOW_FOREGROUND_CALLBACK  \* the static of the windows observer

\* The foreground-window observers and the desktop they watch.
watcher == <<target_os, active_window, observers, WINDOW_FOREGROUND_CALLBACK>>

\* The channel, the control thread of main and the observers.
threads == <<receiver, sent, pc, handler, watcher>>

vars ==
    <<app_state, result, steps, trace, receiver, sent, pc, handler,
      target_os, active_window, observers, WINDOW_FOREGROUND_CALLBACK>>

\* No observer is started.
NoWatcher ==
    /\ target_os = ""
    /\ active_window = 0
    /\ observers = <<>>
    /\ WINDOW_FOREGROUND_CALLBACK = None

\* main is not running: the calls are made on the AppState directly.
NoThreads ==
    /\ receiver = <<>>
    /\ sent = <<>>
    /\ pc = ""
    /\ handler = None
    /\ NoWatcher

\* The record of a call; fields an operation does not use keep these values.
NoCall ==
    [op |-> "", button_id |-> -1, page_name |-> "", window |-> None,
     pages_to_load |-> <<>>, pages_to_unload |-> <<>>,
     handler |-> None, faces |-> <<>>, err |-> None]

\* The slots that need rendering.
Dirty(self) == {id \in DOMAIN self.buttons : needs_rendering(self.buttons[id])}

Init ==
    /\ \E default_pages \in DefaultPagesChoices :
        \E r \in from_config(Config(default_pages)) :
            /\ ~IsSome(r.err)
            /\ app_state = r.self
            /\ result = [NoCall EXCEPT !.op = "from_config"]
    /\ steps = 0
    /\ trace = <<>>
    /\ NoThreads

Pressed(button_id) ==
    /\ LET r == on_button_pressed(app_state, button_id)
       IN  /\ app_state' = r.self
           /\ result' = [NoCall EXCEPT !.op = "on_button_pressed",
                                       !.button_id = button_id,
                                       !.handler = r.ret]
    /\ steps' = steps + 1

Released(button_id) ==
    /\ LET r == on_button_released(app_state, button_id)
       IN  /\ app_state' = r.self
           /\ result' = [NoCall EXCEPT !.op = "on_button_released",
                                       !.button_id = button_id,
                                       !.handler = r.ret]
    /\ steps' = steps + 1

Flushed ==
    /\ LET r == set_rendered_and_get_rendering_faces(app_state)
       IN  /\ app_state' = r.self
           /\ result' = [NoCall EXCEPT !.op = "flush", !.faces = r.ret]
    /\ steps' = steps + 1

OnButtonPressed(button_id) ==
    steps < MaxSteps /\ Pressed(button_id) /\ UNCHANGED <<trace, threads>>

OnButtonReleased(button_id) ==
    steps < MaxSteps /\ Released(button_id) /\ UNCHANGED <<trace, threads>>

Flush == steps < MaxSteps /\ Flushed /\ UNCHANGED <<trace, threads>>

LoadPage(page_name) ==
    /\ steps < MaxSteps
    /\ LET r == load_page(app_state, page_name)
       IN  /\ app_state' = r.self
           /\ result' = [NoCall EXCEPT !.op = "load_page",
                                       !.page_name = page_name,
                                       !.err = r.err]
    /\ steps' = steps + 1
    /\ UNCHANGED <<trace, threads>>

UnloadPage(page_name) ==
    /\ steps < MaxSteps
    /\ LET r == unload_page(app_state, page_name)
       IN  /\ app_state' = r.self
           /\ result' = [NoCall EXCEPT !.op = "unload_page",
                                       !.page_name = page_name,
                                       !.err = r.err]
    /\ steps' = steps + 1
    /\ UNCHANGED <<trace, threads>>

OnForegroundWindow(window_info) ==
    /\ steps < MaxSteps
    /\ \E c \in PagesToLoadAndUnload(app_state, window_info) :
        LET r == on_foreground_window(app_state, window_info, c)
        IN  /\ app_state' = r.self
            /\ result' = [NoCall EXCEPT !.op = "on_foreground_window",
                                        !.window = Some(window_info),
                                        !.pages_to_load = c.to_load,
                                        !.pages_to_unload = c.to_unload,
                                        !.err = r.err]
    /\ steps' = steps + 1
    /\ UNCHANGED <<trace, threads>>

Next ==
    \/ \E button_id \in ButtonIdArgs : OnButtonPressed(button_id)
    \/ \E button_id \in ButtonIdArgs : OnButtonReleased(button_id)
    \/ Flush
    \/ \E page_name \in PageNameArgs : LoadPage(page_name)
    \/ \E page_name \in PageNameArgs : UnloadPage(page_name)
    \/ \E window_info \in Windows : OnForegroundWindow(window_info)

Spec == Init /\ [][Next]_vars

\* The button events and flushes of the control loop, with the calls made so
\* far kept in trace; each entry has the slots that needed rendering and the
\* slots that were Down before the call.
TraceEntry(op, button_id) ==
    [op |-> op, button_id |-> button_id, dirty |-> Dirty(app_state),
     down |-> {id \in Slots : app_state.buttons[id].press_state = "Down"}]

TracedPressed(button_id) ==
    /\ Len(trace) < MaxTrace
    /\ Pressed(button_id)
    /\ trace' = Append(trace, TraceEntry("on_button_pressed", button_id))
    /\ UNCHANGED threads

TracedReleased(button_id) ==
    /\ Len(trace) < MaxTrace
    /\ Released(button_id)
    /\ trace' = Append(trace, TraceEntry("on_button_released", button_id))
    /\ UNCHANGED threads

TracedFlush ==
    /\ Len(trace) < MaxTrace
    /\ Flushed
    /\ trace' = Append(trace, TraceEntry("flush", -1))
    /\ UNCHANGED threads

TraceNext ==
    \/ \E button_id \in ButtonIdArgs : TracedPressed(button_id)
    \/ \E button_id \in ButtonIdArgs : TracedReleased(button_id)
    \/ TracedFlush

TraceSpec == Init /\ [][TraceNext]_vars

\* Position resolution: a configured (row, col) pair is converted by
\* ButtonPosition::from_config and resolved by to_button_index, on each of
\* the device geometries; result holds the call and what it returned.
DeviceTypes ==
    {[rows |-> r, cols |-> c] : r \in 1 .. DeviceRows + 1, c \in 1 .. DeviceCols + 1}

\* The configured row and col values: around the device's edges and around
\* the limits of u8.
IndexArgs ==
    (-(Max(DeviceRows, DeviceCols) + 2) .. (Max(DeviceRows, DeviceCols) + 1))
        \cup {-257, -256, -255, 254, 255, 256, 257}

PositionInit ==
    /\ \E device_type \in DeviceTypes : \E row, col \in IndexArgs :
        result = [op |-> "config", device_type |-> device_type,
                  config |-> [row |-> row, col |-> col],
                  position |-> None, index |-> None, panicked |-> FALSE]
    /\ app_state = None
    /\ steps = 0
    /\ trace = <<>>
    /\ NoThreads

PositionFromConfig ==
    /\ result.op = "config"
    /\ result' = [result EXCEPT
                    !.op = "from_config",
                    !.position = Some(ButtonPosition_from_config(result.config))]
    /\ UNCHANGED <<app_state, steps, trace, threads>>

\* An overflowing u8 addition panics or wraps, depending on the build.
ToButtonIndex ==
    /\ result.op = "from_config"
    /\ \E panicked \in (IF to_button_index_overflows(Unwrap(result.position))
                        THEN BOOLEAN ELSE {FALSE}) :
        result' = [result EXCEPT
                     !.op = "to_button_index",
                     !.panicked = panicked,
                     !.index = IF panicked THEN None
                               ELSE Some(to_button_index_on(Unwrap(result.position),
                                                            result.device_type))]
    /\ UNCHANGED <<app_state, steps, trace, threads>>

PositionNext == PositionFromConfig \/ ToButtonIndex

PositionSpec == PositionInit /\ [][PositionNext]_vars

\* Construction: from_config applied to configurations that declare named
\* buttons, inline page buttons with and without a name, and references, with
\* names that clash or not; result holds the configuration and the error.
SeqsUpTo(S, n) == UNION {[1 .. k -> S] : k \in 0 .. n}

\* A declared named button.
DeclaredButton(name) ==
    [name |-> name,
     up_face |-> Some(FaceConfig(Some("#00FF00"), Some(name))),
     down_face |-> None,
     up_handler |-> None,
     down_handler |-> Some(AsCode("on_" \o name \o "_down"))]

\* The config.buttons settings; the last name is the one synthesized for an
\* unnamed inline button of page "p" on slot 0.
DeclaredChoices ==
    {None,
     Some(<<DeclaredButton("a")>>),
     Some(<<DeclaredButton("empty")>>),
     Some(<<DeclaredButton("a"), DeclaredButton("a")>>),
     Some(<<DeclaredButton("a"), DeclaredButton("empty")>>),
     Some(<<DeclaredButton("empty"), DeclaredButton("empty")>>),
     Some(<<DeclaredButton("page_p_button_0")>>)}

\* The buttons of a page: inline named "a", inline unnamed on slot 0, a
\* reference to "a", inline named "empty".
PageButtonChoices ==
    {InlineButton(0, 0, Some("a"), Some(FaceConfig(None, Some("a"))),
                  None, None, None),
     InlineButton(0, -1, None, Some(FaceConfig(None, Some("unnamed"))),
                  None, None, None),
     NamedButtonRef(-1, 0, "a"),
     InlineButton(-1, -1, Some("empty"), Some(FaceConfig(Some("#0000FF"), None)),
                  None, None, None)}

PageChoices(name) ==
    {[name |-> name, on_app |-> None, buttons |-> buttons] :
        buttons \in SeqsUpTo(PageButtonChoices, MaxPageButtons)}

\* One page "p", or "p" followed by a page "q" or by a second page "p".
PageListChoices ==
    {<<p>> : p \in PageChoices("p")}
        \cup {<<pq[1], pq[2]>> :
                pq \in PageChoices("p") \X (PageChoices("q") \cup PageChoices("p"))}

ConstructionConfigs ==
    {[buttons |-> dp[1], pages |-> dp[2], init_script |-> None,
      default_pages |-> Some(<<"p">>)] :
        dp \in DeclaredChoices \X PageListChoices}

ConstructionInit ==
    /\ \E config \in ConstructionConfigs :
        result = [op |-> "config", config |-> config, err |-> None]
    /\ app_state = None
    /\ steps = 0
    /\ trace = <<>>
    /\ NoThreads

\* AppState::from_config; app_state is Some(state) when it succeeds.
Construct ==
    /\ result.op = "config"
    /\ \E r \in from_config(result.config) :
        /\ result' = [result EXCEPT !.op = "from_config", !.err = r.err]
        /\ app_state' = IF IsSome(r.err) THEN None ELSE Some(r.self)
    /\ UNCHANGED <<steps, trace, threads>>

ConstructionSpec == ConstructionInit /\ [][Construct]_vars

\* Default pages: from_config applied to the configuration of the engine
\* with default_pages lists of known and unknown page names, with
\* repetitions.
MaxDefaultPages == 3

DefaultPagesLists ==
    {None} \cup {Some(names) : names \in SeqsUpTo(PageNameArgs, MaxDefaultPages)}

DefaultPagesInit ==
    /\ \E default_pages \in DefaultPagesLists :
        result = [op |-> "config", config |-> Config(default_pages), err |-> None]
    /\ app_state = None
    /\ steps = 0
    /\ trace = <<>>
    /\ NoThreads

DefaultPagesSpec == DefaultPagesInit /\ [][Construct]_vars

\* Condition matching: a condition is built from its configuration and
\* evaluated on a window. A pattern is the set of the texts it matches.
Texts == {"x", "y", "z"}

PatternChoices == {None, Some({"x"}), Some({"x", "y"}), Some({})}

MatchInit ==
    /\ \E title, executable, class_name \in PatternChoices :
       \E window_title, window_executable, window_class \in Texts :
        result = [op |-> "config",
                  config |-> [title |-> title, executable |-> executable,
                              class_name |-> class_name],
                  window |-> [title |-> window_title,
                              executable |-> window_executable,
                              class_name |-> window_class],
                  condition |-> None, ret |-> None]
    /\ app_state = None
    /\ steps = 0
    /\ trace = <<>>
    /\ NoThreads

ConditionFromConfig ==
    /\ result.op = "config"
    /\ result' = [result EXCEPT
                    !.op = "from_config",
                    !.condition =
                        Some(ForegroundWindowCondition_from_config(result.config))]
    /\ UNCHANGED <<app_state, steps, trace, threads>>

Matches ==
    /\ result.op = "from_config"
    /\ result' = [result EXCEPT
                    !.op = "matches",
                    !.ret = Some(matches(Unwrap(result.condition), result.window))]
    /\ UNCHANGED <<app_state, steps, trace, threads>>

MatchNext == ConditionFromConfig \/ Matches

MatchSpec == MatchInit /\ [][MatchNext]_vars

\* ------------------------------------------------------------------------
\* The control loop of main, its channel and the producer threads
\* ------------------------------------------------------------------------

\* A handler script that asks for a page switch through the "state" object
\* the engine hands to every script.
LoadPageScript(page_name) == "state.load_page('" \o page_name \o "')"

\* The page names a script passes to state.load_page.
CalledPages(script) == {n \in PageNameArgs : script = LoadPageScript(n)}

\* A handler script that recolors the up face of a named button through the
\* "state" object.
SetUpFaceScript(button_name) ==
    "state.set_named_button_up_face('" \o button_name \o "', {'color': '#FFFFFF'})"

\* The button names a script passes to state.set_named_button_up_face.
CalledButtons(script) ==
    {n \in {"switch", "plain"} : script = SetUpFaceScript(n)}

\* The script calls a pymethod of the state object.
UsesState(script) == CalledPages(script) # {} \/ CalledButtons(script) # {}

\* page0 of the engine under the loop: the first slot switches to page1 when
\* pressed and to a page nobody configures when released; the last slot has a
\* handler that does not use the state object when pressed and recolors the
\* first slot when released.
LoopPage0Config ==
    [name |-> "page0",
     on_app |-> None,
     buttons |->
        <<InlineButton(0, -1, Some("switch"),
              Some(FaceConfig(None, Some("switch"))), None,
              Some(AsCode(LoadPageScript("unknown_page"))),
              Some(AsCode(LoadPageScript("page1")))),
          InlineButton(-1, 0, Some("plain"),
              Some(FaceConfig(Some("#FF0000"), None)),
              Some(FaceConfig(Some("#00FF00"), None)),
              Some(AsCode(SetUpFaceScript("switch"))),
              Some(AsCode("print('down')")))>>]

LoopConfig ==
    [buttons |-> None,
     pages |-> <<LoopPage0Config, Page1Config>>,
     init_script |-> None,
     default_pages |-> Some(<<"page0">>)]

\* InputEvent
ButtonDownEvent(button_id) ==
    [type |-> "ButtonDownEvent", button_id |-> button_id, info |-> None]

ButtonUpEvent(button_id) ==
    [type |-> "ButtonUpEvent", button_id |-> button_id, info |-> None]

ForegroundWindow(info) ==
    [type |-> "ForegroundWindow", button_id |-> -1, info |-> Some(info)]

NoEvent == [type |-> "", button_id |-> -1, info |-> None]

\* The buttons the device reports and the windows the watcher reports.
DeviceButtonIds == {0, total_num_buttons - 1}

WatchedWindows ==
    {[title |-> "t1", executable |-> "e1", class_name |-> "c_"],
     [title |-> "t_", executable |-> "e_", class_name |-> "c_"]}

\* What the loop writes down: the flushes, the events applied with the handler
\* they returned, and the handlers run.
LoopEntry(op, e, h) == [op |-> op, e |-> e, handler |-> h]

\* The init scripts of the configurations the engine is started with: none,
\* or one that switches to page1.
LoopInitScripts == {None, Some(AsCode(LoadPageScript("page1")))}

\* AppState::get_init_handler
get_init_handler(self) == self.init_handler

LoopInit ==
    /\ \E init_script \in LoopInitScripts :
       \E r \in from_config([LoopConfig EXCEPT !.init_script = init_script]) :
        /\ ~IsSome(r.err)
        /\ app_state = r.self
    /\ result = [NoCall EXCEPT !.op = "from_config"]
    /\ steps = 0
    /\ trace = <<>>
    /\ receiver = <<>>
    /\ sent = <<>>
    /\ pc = "init"
    /\ handler = None
    /\ NoWatcher

\* Sender::send
send(e) ==
    /\ Len(sent) < MaxSteps
    /\ receiver' = Append(receiver, e)
    /\ sent' = Append(sent, e)
    /\ UNCHANGED <<app_state, result, steps, trace, pc, handler, watcher>>

\* The callback of run_input_loop_thread.
SendButtonDown(button_id) == send(ButtonDownEvent(button_id))

SendButtonUp(button_id) == send(ButtonUpEvent(button_id))

\* The callback of run_foreground_window_event_loop_thread.
SendForegroundWindow(info) == send(ForegroundWindow(info))

\* Receiver::recv on a channel that is not empty: the event returned and the
\* events left.
recv_newest(queue) ==
    [e |-> queue[Len(queue)], rest |-> SubSeq(queue, 1, Len(queue) - 1)]

recv(queue) == [e |-> Head(queue), rest |-> Tail(queue)]

\* The outcomes of RwLock::write on a lock of which the calling thread holds
\* a guard: the call never returns, or it panics.
WriteWhileHeld == {"blocked", "panicked"}

\* "if let Some(init_handler) = app_state.read().unwrap().get_init_handler()
\* { engine.run_event_handler(&init_handler).unwrap(); }": the read guard of
\* the scrutinee lives until the end of the if let, so a pymethod the init
\* script calls asks for the write guard while the thread holds a read guard.
RunInit ==
    /\ pc = "init"
    /\ LET init_handler == get_init_handler(app_state)
       IN  /\ IF IsSome(init_handler) /\ UsesState(Unwrap(init_handler).script)
              THEN /\ pc' \in WriteWhileHeld
                   /\ result' = [NoCall EXCEPT !.op = "init",
                                               !.handler = init_handler]
              ELSE /\ pc' = "flush"
                   /\ result' = [NoCall EXCEPT !.op = "init"]
    /\ UNCHANGED <<app_state, steps, trace, receiver, sent, handler, watcher>>

\* The head of the loop: the write guard is taken and the faces that need
\* rendering are handed to the device.
LoopFlush ==
    /\ pc = "flush"
    /\ LET r == set_rendered_and_get_rendering_faces(app_state)
       IN  /\ app_state' = r.self
           /\ result' = [NoCall EXCEPT !.op = "flush", !.faces = r.ret]
    /\ trace' = Append(trace, LoopEntry("flush", NoEvent, None))
    /\ pc' = "recv"
    /\ UNCHANGED <<steps, receiver, sent, handler, watcher>>

\* Where the loop goes after "let handler = match e { ... }".
AfterApply(h) == IF IsSome(h) THEN "run_handler" ELSE "flush"

\* "let e = receiver.recv().unwrap(); let handler = match e { ... };"
LoopReceive ==
    /\ pc = "recv"
    /\ receiver # <<>>
    /\ LET m == recv(receiver)
           e == m.e
       IN  /\ receiver' = m.rest
           /\ \/ /\ e.type = "ButtonDownEvent"
                 /\ LET r == on_button_pressed(app_state, e.button_id)
                    IN  /\ app_state' = r.self
                        /\ handler' = r.ret
                        /\ pc' = AfterApply(r.ret)
                        /\ result' = [NoCall EXCEPT !.op = "on_button_pressed",
                                                    !.button_id = e.button_id,
                                                    !.handler = r.ret]
              \/ /\ e.type = "ButtonUpEvent"
                 /\ LET r == on_button_released(app_state, e.button_id)
                    IN  /\ app_state' = r.self
                        /\ handler' = r.ret
                        /\ pc' = AfterApply(r.ret)
                        /\ result' = [NoCall EXCEPT !.op = "on_button_released",
                                                    !.button_id = e.button_id,
                                                    !.handler = r.ret]
              \/ /\ e.type = "ForegroundWindow"
                 /\ \E c \in PagesToLoadAndUnload(app_state, Unwrap(e.info)) :
                     LET r == on_foreground_window(app_state, Unwrap(e.info), c)
                     IN  /\ app_state' = r.self
                         /\ handler' = None
                         /\ pc' = IF IsSome(r.err) THEN "panicked"
                                  ELSE AfterApply(None)
                         /\ result' = [NoCall EXCEPT
                                         !.op = "on_foreground_window",
                                         !.window = e.info,
                                         !.pages_to_load = c.to_load,
                                         !.pages_to_unload = c.to_unload,
                                         !.err = r.err]
           /\ trace' = Append(trace, LoopEntry("apply", e, handler'))
    /\ UNCHANGED <<steps, sent, watcher>>

\* "engine.run_event_handler(&event_handler).unwrap()" on a script that does
\* not use the state object: the script runs and the loop goes on.
RunHandler ==
    /\ pc = "run_handler"
    /\ ~UsesState(Unwrap(handler).script)
    /\ trace' = Append(trace, LoopEntry("run_handler", NoEvent, handler))
    /\ result' = [NoCall EXCEPT !.op = "run_event_handler", !.handler = handler]
    /\ pc' = "flush"
    /\ handler' = None
    /\ UNCHANGED <<app_state, steps, receiver, sent, watcher>>

\* run_event_handler on a script that calls state.load_page: the pymethod
\* asks for the write guard of the AppState, which the loop has held since
\* the head of the iteration, so AppState::load_page is never entered.
RunHandlerLoadPage(page_name) ==
    /\ pc = "run_handler"
    /\ page_name \in CalledPages(Unwrap(handler).script)
    /\ trace' = Append(trace, LoopEntry("run_handler", NoEvent, handler))
    /\ result' = [NoCall EXCEPT !.op = "state.load_page",
                                !.page_name = page_name,
                                !.handler = handler]
    /\ pc' \in WriteWhileHeld
    /\ handler' = None
    /\ UNCHANGED <<app_state, steps, receiver, sent, watcher>>

\* run_event_handler on a script that calls state.set_named_button_up_face:
\* the pymethod asks for the write guard in the same way, so
\* AppState::set_named_button_up_face is never entered.
RunHandlerSetUpFace(button_name) ==
    /\ pc = "run_handler"
    /\ button_name \in CalledButtons(Unwrap(handler).script)
    /\ trace' = Append(trace, LoopEntry("run_handler", NoEvent, handler))
    /\ result' = [NoCall EXCEPT !.op = "state.set_named_button_up_face",
                                !.handler = handler]
    /\ pc' \in WriteWhileHeld
    /\ handler' = None
    /\ UNCHANGED <<app_state, steps, receiver, sent, watcher>>

LoopNext ==
    \/ RunInit
    \/ \E button_name \in {"switch", "plain"} : RunHandlerSetUpFace(button_name)
    \/ \E button_id \in DeviceButtonIds : SendButtonDown(button_id)
    \/ \E button_id \in DeviceButtonIds : SendButtonUp(button_id)
    \/ \E info \in WatchedWindows : SendForegroundWindow(info)
    \/ LoopFlush
    \/ LoopReceive
    \/ RunHandler
    \/ \E page_name \in PageNameArgs : RunHandlerLoadPage(page_name)

LoopSpec == LoopInit /\ [][LoopNext]_vars

\* ------------------------------------------------------------------------
\* The AppState with the faces of its named buttons updated while it runs
\* ------------------------------------------------------------------------

\* The arguments of set_named_button_up_face: a new color, or a new label.
NoValues ==
    [color |-> None, file |-> None, label |-> None, labelcolor |-> None,
     sublabel |-> None, sublabelcolor |-> None, superlabel |-> None,
     superlabelcolor |-> None]

UpFaceValues ==
    {[NoValues EXCEPT !.color = Some("#FFFFFF")],
     [NoValues EXCEPT !.label = Some("new")]}

\* A button with both faces, one without up face, one no page registers.
UpFaceNames == {"page1_a", "page1_b", "ghost"}

SetNamedButtonUpFace(button_name, values) ==
    /\ steps < MaxSteps
    /\ LET r == set_named_button_up_face(app_state, button_name, values)
       IN  /\ app_state' = r.self
           /\ result' = [button_name |-> button_name, values |-> values]
                            @@ [NoCall EXCEPT !.op = "set_named_button_up_face",
                                               !.err = r.err]
    /\ steps' = steps + 1
    /\ UNCHANGED <<trace, threads>>

UpdateNext ==
    \/ Next
    \/ \E button_name \in UpFaceNames : \E values \in UpFaceValues :
        SetNamedButtonUpFace(button_name, values)

UpdateSpec == Init /\ [][UpdateNext]_vars

\* ------------------------------------------------------------------------
\* The foreground-window observers
\* ------------------------------------------------------------------------

\* The windows of the desktop are 1 .. MaxWindows; 0 is the id the desktop
\* reports when no window is in the foreground.
MaxWindows == 2

WindowIds == 1 .. MaxWindows

\* The threads that call foreground_window_observer, each with a callback of
\* its own.
ObserverIds == {1, 2}

\* What the callback is given for a window; the window 0 has no properties.
WindowInformationOf(window) ==
    IF window = 0
    THEN [title |-> "", executable |-> "", class_name |-> ""]
    ELSE [title |-> "title" \o ToString(window),
          executable |-> "exe" \o ToString(window),
          class_name |-> "class" \o ToString(window)]

\* A call of a callback: whose it is, the window and what it was given.
CallbackEntry(cb, window) ==
    [op |-> "cb", cb |-> cb, window |-> window,
     info |-> WindowInformationOf(window)]

ObserverReturn(i, err) ==
    [op |-> "foreground_window_observer", observer |-> i, err |-> err]

WatcherInit ==
    /\ target_os \in {"linux", "windows"}
    /\ active_window \in {0} \cup WindowIds
    /\ observers = [i \in ObserverIds |->
                      [pc |-> "idle", last_active_window |-> 0, events |-> <<>>]]
    /\ WINDOW_FOREGROUND_CALLBACK = None
    /\ result = ObserverReturn(0, None)
    /\ app_state = None
    /\ steps = 0
    /\ trace = <<>>
    /\ receiver = <<>>
    /\ sent = <<>>
    /\ pc = ""
    /\ handler = None

\* The observer is told about a change of the foreground window: on linux
\* from the moment it has selected the property events of the root window,
\* on windows while it is in its message loop and a window gets the
\* foreground.
Notified(i, window) ==
    IF target_os = "linux"
    THEN observers[i].pc \in {"initial", "loop"}
    ELSE observers[i].pc = "loop" /\ window # 0

\* The desktop puts another window, or none, in the foreground.
ForegroundChange(window) ==
    /\ steps < MaxSteps
    /\ window # active_window
    /\ active_window' = window
    /\ observers' = [i \in ObserverIds |->
                       IF Notified(i, window)
                       THEN [observers[i] EXCEPT !.events = Append(@, window)]
                       ELSE observers[i]]
    /\ steps' = steps + 1
    /\ UNCHANGED <<app_state, result, trace, receiver, sent, pc, handler,
                   target_os, WINDOW_FOREGROUND_CALLBACK>>

\* linux: the connection is made, the property events are selected and
\* last_active_window is 0.
LinuxConnect(i) ==
    /\ target_os = "linux"
    /\ observers[i].pc = "idle"
    /\ observers' = [observers EXCEPT ![i].pc = "initial",
                                      ![i].last_active_window = 0]
    /\ UNCHANGED <<app_state, result, steps, trace, receiver, sent, pc, handler,
                   target_os, active_window, WINDOW_FOREGROUND_CALLBACK>>

\* send_active_window_information that calls the callback every time
send_always(last_active_window, window) ==
    [last_active_window |-> window, cb |-> Some(window)]

\* send_active_window_information: window is the one in the foreground when
\* it is called; the callback is called when it is not the one remembered.
send_active_window_information(last_active_window, window) ==
    IF last_active_window = window
    THEN [last_active_window |-> last_active_window, cb |-> None]
    ELSE [last_active_window |-> window, cb |-> Some(window)]

\* The trace after a callback was called, or not.
Called(cb, window) ==
    IF IsSome(window) THEN Append(trace, CallbackEntry(cb, Unwrap(window)))
    ELSE trace

\* linux: "Send initial window"
LinuxSendInitial(i) ==
    /\ target_os = "linux"
    /\ observers[i].pc = "initial"
    /\ LET r == send_active_window_information(
                    observers[i].last_active_window, active_window)
       IN  /\ observers' = [observers EXCEPT
                              ![i].pc = "loop",
                              ![i].last_active_window = r.last_active_window]
           /\ trace' = Called(i, r.cb)
    /\ UNCHANGED <<app_state, result, steps, receiver, sent, pc, handler,
                   target_os, active_window, WINDOW_FOREGROUND_CALLBACK>>

\* linux: wait_for_event returned a PropertyNotify of _NET_ACTIVE_WINDOW.
LinuxPropertyNotify(i) ==
    /\ target_os = "linux"
    /\ observers[i].pc = "loop"
    /\ observers[i].events # <<>>
    /\ LET r == send_active_window_information(
                    observers[i].last_active_window, active_window)
       IN  /\ observers' = [observers EXCEPT
                              ![i].events = Tail(@),
                              ![i].last_active_window = r.last_active_window]
           /\ trace' = Called(i, r.cb)
    /\ UNCHANGED <<app_state, result, steps, receiver, sent, pc, handler,
                   target_os, active_window, WINDOW_FOREGROUND_CALLBACK>>

\* The windows observer with the test of the static left out.
WindowsCheck_always_free(callback) == "store"

\* windows: "if WINDOW_FOREGROUND_CALLBACK.is_some() { return Err(...) }":
\* where the observer goes for the value it read from the static.
WindowsCheck(callback) == IF IsSome(callback) THEN "failed" ELSE "store"

\* windows: the static is read. Nothing orders this read and the write that
\* follows it with the reads and writes of another thread.
WindowsRead(i) ==
    /\ target_os = "windows"
    /\ observers[i].pc = "idle"
    /\ observers' = [observers EXCEPT
                       ![i].pc = WindowsCheck(WINDOW_FOREGROUND_CALLBACK)]
    /\ result' = IF WindowsCheck(WINDOW_FOREGROUND_CALLBACK) = "failed"
                 THEN ObserverReturn(i, Some("AlreadyStarted"))
                 ELSE result
    /\ UNCHANGED <<app_state, steps, trace, receiver, sent, pc, handler,
                   target_os, active_window, WINDOW_FOREGROUND_CALLBACK>>

\* windows: the callback is stored in the static and the hook is set.
WindowsStore(i) ==
    /\ target_os = "windows"
    /\ observers[i].pc = "store"
    /\ WINDOW_FOREGROUND_CALLBACK' = Some(i)
    /\ observers' = [observers EXCEPT ![i].pc = "loop"]
    /\ UNCHANGED <<app_state, result, steps, trace, receiver, sent, pc, handler,
                   target_os, active_window>>

\* windows: the callback is stored in the static, SetWinEventHook fails and
\* the observer returns the error.
WindowsHookFails(i) ==
    /\ target_os = "windows"
    /\ observers[i].pc = "store"
    /\ WINDOW_FOREGROUND_CALLBACK' = Some(i)
    /\ observers' = [observers EXCEPT ![i].pc = "hook_failed"]
    /\ result' = ObserverReturn(i, Some("WMError"))
    /\ UNCHANGED <<app_state, steps, trace, receiver, sent, pc, handler,
                   target_os, active_window>>

\* windows: the message loop dispatches a foreground event to the hook, which
\* calls the callback the static holds.
WindowsDispatch(i) ==
    /\ target_os = "windows"
    /\ observers[i].pc = "loop"
    /\ observers[i].events # <<>>
    /\ observers' = [observers EXCEPT ![i].events = Tail(@)]
    /\ trace' = IF IsSome(WINDOW_FOREGROUND_CALLBACK)
                THEN Called(Unwrap(WINDOW_FOREGROUND_CALLBACK),
                            Some(Head(observers[i].events)))
                ELSE trace
    /\ UNCHANGED <<app_state, result, steps, receiver, sent, pc, handler,
                   target_os, active_window, WINDOW_FOREGROUND_CALLBACK>>

\* windows: GetMessageW returned false; the static is cleared and the
\* observer returns Ok.
WindowsQuit(i) ==
    /\ target_os = "windows"
    /\ observers[i].pc = "loop"
    /\ WINDOW_FOREGROUND_CALLBACK' = None
    /\ observers' = [observers EXCEPT ![i].pc = "returned", ![i].events = <<>>]
    /\ result' = ObserverReturn(i, None)
    /\ UNCHANGED <<app_state, steps, trace, receiver, sent, pc, handler,
                   target_os, active_window>>

WatcherNext ==
    \/ \E window \in {0} \cup WindowIds : ForegroundChange(window)
    \/ \E i \in ObserverIds : LinuxConnect(i)
    \/ \E i \in ObserverIds : LinuxSendInitial(i)
    \/ \E i \in ObserverIds : LinuxPropertyNotify(i)
    \/ \E i \in ObserverIds : WindowsRead(i)
    \/ \E i \in ObserverIds : WindowsStore(i)
    \/ \E i \in ObserverIds : WindowsHookFails(i)
    \/ \E i \in ObserverIds : WindowsDispatch(i)
    \/ \E i \in ObserverIds : WindowsQuit(i)

WatcherSpec == WatcherInit /\ [][WatcherNext]_vars

\* ------------------------------------------------------------------------
\* Colors given as hex strings
\* ------------------------------------------------------------------------

\* A string is the sequence of its characters.
LowerDigits ==
    <<"0", "1", "2", "3", "4", "5", "6", "7", "8", "9",
      "a", "b", "c", "d", "e", "f">>

UpperDigits ==
    <<"0", "1", "2", "3", "4", "5", "6", "7", "8", "9",
      "A", "B", "C", "D", "E", "F">>

\* char::to_digit(16)
to_digit(c) ==
    IF \E k \in 1 .. 16 : LowerDigits[k] = c
    THEN Some((CHOOSE k \in 1 .. 16 : LowerDigits[k] = c) - 1)
    ELSE IF \E k \in 1 .. 16 : UpperDigits[k] = c
         THEN Some((CHOOSE k \in 1 .. 16 : UpperDigits[k] = c) - 1)
         ELSE None

\* The number of bytes of a character in a String.
len_utf8(c) == IF c = "é" THEN 2 ELSE 1

RECURSIVE str_len(_)
\* str::len: the number of bytes
str_len(str) == IF str = <<>> THEN 0 ELSE len_utf8(Head(str)) + str_len(Tail(str))

\* A u32 as its eight hexadecimal digits, the most significant first.
U32Zero == <<0, 0, 0, 0, 0, 0, 0, 0>>

RECURSIVE ParseDigits(_, _)
\* The digit loop of u32::from_str_radix(_, 16): the number, or None for a
\* character that is no digit and for a number beyond u32.
ParseDigits(digits, num) ==
    IF digits = <<>> THEN Some(num)
    ELSE LET d == to_digit(Head(digits))
         IN  IF ~IsSome(d) THEN None
             ELSE IF num[1] # 0 THEN None
                  ELSE ParseDigits(Tail(digits), Append(Tail(num), Unwrap(d)))

\* u32::from_str_radix(src, 16): an empty string and a lone sign are
\* errors; one leading "+" is skipped.
from_str_radix(src) ==
    IF src = <<>> THEN None
    ELSE IF src = <<"+">> THEN None
         ELSE IF Head(src) = "+" THEN ParseDigits(Tail(src), U32Zero)
              ELSE ParseDigits(src, U32Zero)

RECURSIVE trim_start_matches(_, _)
\* str::trim_start_matches: every leading occurrence is removed
trim_start_matches(str, c) ==
    IF str # <<>> /\ Head(str) = c THEN trim_start_matches(Tail(str), c) ELSE str

\* "&hex[..1]" panics when the string has no byte 1 or when byte 1 is inside
\* a character.
SlicePanics(hex) == hex = <<>> \/ len_utf8(Head(hex)) # 1

ColorOk(r, g, b, a) == [tag |-> "Ok", rgba |-> <<r, g, b, a>>]

InvalidColorHexString == [tag |-> "InvalidColorHexString", rgba |-> <<>>]

ColorPanic == [tag |-> "panic", rgba |-> <<>>]

\* "(num >> shift) as u8" for a shift of 0, 8, 16 or 24 bits
ShrAsU8(num, shift) ==
    LET k == 7 - shift \div 4 IN 16 * num[k] + num[k + 1]

\* "match without_prefix.len() { 6 => .., 8 => .., _ => Err(..) }" on the
\* number parsed, after the "?" on it
MatchLen(num, len) ==
    IF ~IsSome(num) THEN InvalidColorHexString
    ELSE CASE len = 6 ->
                ColorOk(ShrAsU8(Unwrap(num), 16),
                        ShrAsU8(Unwrap(num), 8),
                        ShrAsU8(Unwrap(num), 0), 255)
           [] len = 8 ->
                ColorOk(ShrAsU8(Unwrap(num), 24),
                        ShrAsU8(Unwrap(num), 16),
                        ShrAsU8(Unwrap(num), 8),
                        ShrAsU8(Unwrap(num), 0))
           [] OTHER -> InvalidColorHexString

\* The conversion of the string without its prefix
WithoutPrefix(without_prefix) ==
    MatchLen(from_str_radix(without_prefix), str_len(without_prefix))

\* hex_string_to_rgba_color
hex_string_to_rgba_color(hex) ==
    IF SlicePanics(hex) THEN ColorPanic
    ELSE IF Head(hex) # "#" THEN InvalidColorHexString
    ELSE WithoutPrefix(trim_start_matches(hex, "#"))

\* The strings converted: a head, up to MaxDigits digits, a tail.
MaxDigits == 9

HexHeads ==
    {<<>>, <<"#">>, <<"#", "#">>, <<"+">>, <<"#", "+">>, <<"é">>, <<"x">>}

HexTails == {<<>>, <<"g">>, <<"a">>}

HexStrings ==
    {h \o d \o t :
        h \in HexHeads, d \in SeqsUpTo({"0", "F"}, MaxDigits), t \in HexTails}

ColorInit ==
    /\ \E hex \in HexStrings :
        result = [op |-> "hex", hex |-> hex, ret |-> None]
    /\ app_state = None
    /\ steps = 0
    /\ trace = <<>>
    /\ NoThreads

HexStringToRgbaColor ==
    /\ result.op = "hex"
    /\ result' = [result EXCEPT
                    !.op = "hex_string_to_rgba_color",
                    !.ret = Some(hex_string_to_rgba_color(result.hex))]
    /\ UNCHANGED <<app_state, steps, trace, threads>>

ColorSpec == ColorInit /\ [][HexStringToRgbaColor]_vars

\* ------------------------------------------------------------------------
\* Faces drawn into images
\* ------------------------------------------------------------------------

\* The largest width and height of a button image that is drawn.
MaxImageSize == 2

\* StreamDeckType::button_image_size of the device types drawn for.
ImageSizes == (1 .. MaxImageSize) \X (1 .. MaxImageSize)

\* ColorConfig::HEXString
HEXString(hex) == [tag |-> "HEXString", hex |-> hex]

\* ColorConfig::RGB
RGB(red, green, blue) ==
    [tag |-> "RGB", red |-> red, green |-> green, blue |-> blue]

\* ColorConfig::to_image_rgba_color
to_image_rgba_color(self) ==
    IF self.tag = "HEXString"
    THEN hex_string_to_rgba_color(self.hex)
    ELSE ColorOk(self.red, self.green, self.blue, 255)

\* Result::Ok of the state module
OkValue(value) == [tag |-> "Ok", value |-> Some(value)]

\* Result::Err(Error::<tag>) of the state module; the tag "panic" stands
\* for a call that does not return.
Failure(tag) == [tag |-> tag, value |-> None]

\* ".map_err(Error::ConfigError)?" on a converted color
map_err_ConfigError(c) ==
    CASE c.tag = "Ok" -> OkValue(Some(c.rgba))
      [] c.tag = "panic" -> Failure("panic")
      [] OTHER -> Failure("ConfigError")

\* "Some(..?)": the value when there is one, else the early return
SomeOf(r) ==
    IF r.tag # "Ok" THEN Failure(r.tag) ELSE OkValue(Some(Unwrap(r.value)))

\* "match c { None => None, Some(c) =>
\*     Some(c.to_image_rgba_color().map_err(Error::ConfigError)?) }"
OptionalColor(config) ==
    IF ~IsSome(config) THEN OkValue(None)
    ELSE map_err_ConfigError(to_image_rgba_color(Unwrap(config)))

RECURSIVE FirstFailure(_)
\* The result the "?" operators return early with: the first that is no Ok.
FirstFailure(results) ==
    IF results = <<>> THEN None
    ELSE IF Head(results).tag # "Ok" THEN Some(Failure(Head(results).tag))
         ELSE FirstFailure(Tail(results))

\* DefaultsConfigSection
DefaultsConfig(background_color, label_color) ==
    [background_color |-> background_color, label_color |-> label_color,
     superlabel_color |-> None, sublabel_color |-> None]

\* Defaults::from_config
Defaults_from_config(config) ==
    IF ~IsSome(config)
    THEN OkValue([background_color |-> <<0, 0, 0, 255>>,
                  label_color |-> <<255, 255, 255, 255>>,
                  superlabel_color |-> <<255, 255, 0, 255>>,
                  sublabel_color |-> <<0, 255, 255, 255>>])
    ELSE LET background_color == OptionalColor(Unwrap(config).background_color)
             label_color == OptionalColor(Unwrap(config).label_color)
             superlabel_color == OptionalColor(Unwrap(config).superlabel_color)
             sublabel_color == OptionalColor(Unwrap(config).sublabel_color)
             failure == FirstFailure(<<background_color, label_color,
                                       superlabel_color, sublabel_color>>)
             Or(color, default) ==
                 IF IsSome(Unwrap(color.value))
                 THEN Unwrap(Unwrap(color.value)) ELSE default
         IN  IF IsSome(failure) THEN Unwrap(failure)
             ELSE OkValue(
                    [background_color |-> Or(background_color, <<0, 0, 0, 255>>),
                     label_color |-> Or(label_color, <<255, 255, 255, 255>>),
                     superlabel_color |-> Or(superlabel_color, <<255, 255, 0, 255>>),
                     sublabel_color |-> Or(sublabel_color, <<0, 255, 255, 255>>)])

\* LabelConfig::JustText
JustText(text) == [tag |-> "JustText", text |-> text, color |-> None]

\* LabelConfig::WithColor
WithColor(text, color) == [tag |-> "WithColor", text |-> text, color |-> color]

\* "Ok(ColoredText { color: .., text: .. })" after the "?" on the color
ColoredText(color, text) ==
    IF color.tag # "Ok" THEN Failure(color.tag)
    ELSE OkValue([color |-> Unwrap(color.value), text |-> text])

\* ColoredText::from_config
ColoredText_from_config(config) ==
    IF config.tag = "JustText"
    THEN OkValue([color |-> None, text |-> config.text])
    ELSE ColoredText(OptionalColor(config.color), config.text)

\* "match label { None => None,
\*     Some(label_config) => Some(ColoredText::from_config(label_config)?) }"
OptionalText(config) ==
    IF ~IsSome(config) THEN OkValue(None)
    ELSE SomeOf(ColoredText_from_config(Unwrap(config)))

\* The image files of the file system: one that is opaque green, one that is
\* fully transparent and one that is no image; other paths cannot be opened.
ImageFiles ==
    [icon |-> Some(<<0, 255, 0, 255>>), glass |-> Some(<<0, 0, 0, 0>>),
     broken |-> None]

\* image::RgbaImage::new and image::RgbImage::new
Image_new(width, height, zero) ==
    [width |-> width, height |-> height,
     pixels |-> [p \in (0 .. width - 1) \X (0 .. height - 1) |-> zero],
     texts |-> <<>>]

\* imageproc::rect::Rect::at(x, y).of_size(width, height)
Rect(x, y, width, height) ==
    [left |-> x, top |-> y, width |-> width, height |-> height]

\* A rectangle drawn without its last row and its last column.
draw_filled_rect_mut_exclusive(image, rect, color) ==
    [image EXCEPT !.pixels =
        [p \in DOMAIN image.pixels |->
            IF /\ rect.left <= p[1] /\ p[1] < rect.left + rect.width - 1
               /\ rect.top <= p[2] /\ p[2] < rect.top + rect.height - 1
            THEN color ELSE image.pixels[p]]]

\* imageproc::drawing::draw_filled_rect_mut
draw_filled_rect_mut(image, rect, color) ==
    [image EXCEPT !.pixels =
        [p \in DOMAIN image.pixels |->
            IF /\ rect.left <= p[1] /\ p[1] < rect.left + rect.width
               /\ rect.top <= p[2] /\ p[2] < rect.top + rect.height
            THEN color ELSE image.pixels[p]]]

\* image::imageops::overlay of an image resized to the size of the bottom
\* one; the files drawn have one color, fully opaque or fully transparent.
overlay(bottom, top_color) ==
    [bottom EXCEPT !.pixels =
        [p \in DOMAIN bottom.pixels |->
            IF top_color[4] = 0 THEN bottom.pixels[p] ELSE top_color]]

\* Rgba::to_rgb
to_rgb(color) == <<color[1], color[2], color[3]>>

\* DynamicImage::to_rgb8
to_rgb8(image) ==
    [image EXCEPT !.pixels = [p \in DOMAIN image.pixels |-> to_rgb(image.pixels[p])]]

\* ColoredText::draw: the text is a layer over the pixels
draw(self, image, position, default_color) ==
    [image EXCEPT !.texts =
        Append(@, [position |-> position, text |-> self.text,
                   color |-> to_rgb(IF IsSome(self.color)
                                    THEN Unwrap(self.color) ELSE default_color)])]

\* ButtonFace::draw_face
draw_face(self, defaults) ==
    LET width == self.device_type.button_image_size[1]
        height == self.device_type.button_image_size[2]
        face == Image_new(width, height, <<0, 0, 0, 0>>)
        back_color == IF IsSome(self.color) THEN Unwrap(self.color)
                      ELSE defaults.background_color
        filled == draw_filled_rect_mut(face, Rect(0, 0, width, height), back_color)
        path == IF IsSome(self.file) THEN Unwrap(self.file) ELSE ""
        with_image == IF IsSome(self.file)
                      THEN overlay(filled, Unwrap(ImageFiles[path]))
                      ELSE filled
        rgb == to_rgb8(with_image)
        with_label == IF IsSome(self.label)
                      THEN draw(Unwrap(self.label), rgb, "Center", defaults.label_color)
                      ELSE rgb
        with_sublabel == IF IsSome(self.sublabel)
                         THEN draw(Unwrap(self.sublabel), with_label, "Sub",
                                   defaults.sublabel_color)
                         ELSE with_label
        with_superlabel == IF IsSome(self.superlabel)
                           THEN draw(Unwrap(self.superlabel), with_sublabel, "Super",
                                     defaults.superlabel_color)
                           ELSE with_sublabel
    IN  IF IsSome(self.file) /\ path \notin DOMAIN ImageFiles
        THEN Failure("ImageOpeningError")
        ELSE IF IsSome(self.file) /\ ~IsSome(ImageFiles[path])
             THEN Failure("ImageEncodingError")
             ELSE OkValue([self EXCEPT !.face = with_superlabel])

\* ButtonFace::from_config with the image of the face
ButtonFace_from_config_drawn(device_type, face_config, defaults) ==
    LET color == OptionalColor(face_config.color)
        label == OptionalText(face_config.label)
        sublabel == OptionalText(face_config.sublabel)
        superlabel == OptionalText(face_config.superlabel)
        failure == FirstFailure(<<color, label, sublabel, superlabel>>)
    IN  IF IsSome(failure) THEN Unwrap(failure)
        ELSE draw_face([device_type |-> device_type,
                        face |-> Image_new(0, 0, <<0, 0, 0>>),
                        color |-> Unwrap(color.value),
                        file |-> face_config.file,
                        label |-> Unwrap(label.value),
                        sublabel |-> Unwrap(sublabel.value),
                        superlabel |-> Unwrap(superlabel.value)],
                       defaults)

\* The colors a configuration names: well-formed ones, one with an alpha
\* channel and malformed ones.
ColorChoices ==
    {None,
     Some(HEXString(<<"#", "F", "F", "0", "0", "0", "0">>)),
     Some(HEXString(<<"#", "0", "0", "0", "0", "F", "F", "0", "0">>)),
     Some(HEXString(<<"r", "e", "d">>)),
     Some(HEXString(<<>>)),
     Some(RGB(1, 2, 3))}

LabelChoices ==
    {None, Some(JustText("text")),
     Some(WithColor("text", Some(RGB(9, 9, 9)))),
     Some(WithColor("text", Some(HEXString(<<"r", "e", "d">>))))}

FileChoices == {None, Some("icon"), Some("glass"), Some("broken"), Some("missing")}

DefaultsChoices ==
    {None} \cup {Some(DefaultsConfig(c, None)) : c \in ColorChoices}

DrawInit ==
    /\ \E size \in ImageSizes, color \in ColorChoices, file \in FileChoices,
          label \in LabelChoices, defaults \in DefaultsChoices :
        result = [op |-> "face",
                  device_type |-> [button_image_size |-> size],
                  face_config |-> [color |-> color, file |-> file,
                                   label |-> label, sublabel |-> None,
                                   superlabel |-> None],
                  defaults |-> defaults,
                  ret |-> None]
    /\ app_state = None
    /\ steps = 0
    /\ trace = <<>>
    /\ NoThreads

\* The defaults are built, then the face with them, as AppState::from_config
\* does it for every face of the configuration.
ButtonFaceFromConfig ==
    /\ result.op = "face"
    /\ LET defaults == Defaults_from_config(result.defaults)
       IN  result' = [result EXCEPT
                        !.op = "ButtonFace::from_config",
                        !.ret = Some(IF defaults.tag # "Ok" THEN defaults
                                     ELSE ButtonFace_from_config_drawn(
                                            result.device_type,
                                            result.face_config,
                                            Unwrap(defaults.value)))]
    /\ UNCHANGED <<app_state, steps, trace, threads>>

DrawSpec == DrawInit /\ [][ButtonFaceFromConfig]_vars

\* ------------------------------------------------------------------------
\* Construction with the faces drawn and the handler files read
\* ------------------------------------------------------------------------

\* EventHandlerConfig::AsFile
AsFile(file) == [file |-> file]

\* EventHandler::from_config with the file read
EventHandler_from_config_read(config) ==
    IF "file" \in DOMAIN config /\ config.file \notin DOMAIN ScriptFiles
    THEN Failure("LoadScriptFailed")
    ELSE OkValue(EventHandler_from_config(config))

\* "match &config.up_face { None => None,
\*     Some(f) => Some(Arc::new(ButtonFace::from_config(device_type, f, defaults)?)) }"
OptionalFace(device_type, config, defaults) ==
    IF ~IsSome(config) THEN OkValue(None)
    ELSE SomeOf(ButtonFace_from_config_drawn(device_type, Unwrap(config), defaults))

\* "match &config.up_handler { None => None,
\*     Some(e) => Some(Arc::new(EventHandler::from_config(e)?)) }"
OptionalHandler(config) ==
    IF ~IsSome(config) THEN OkValue(None)
    ELSE SomeOf(EventHandler_from_config_read(Unwrap(config)))

\* ButtonSetup::from_config_with_name and from_optional_name_config with
\* the faces drawn and the handler files read
ButtonSetup_from_config_built(device_type, config, defaults) ==
    LET up_face == OptionalFace(device_type, config.up_face, defaults)
        down_face == OptionalFace(device_type, config.down_face, defaults)
        up_handler == OptionalHandler(config.up_handler)
        down_handler == OptionalHandler(config.down_handler)
        failure == FirstFailure(<<up_face, down_face, up_handler, down_handler>>)
    IN  IF IsSome(failure) THEN Unwrap(failure)
        ELSE OkValue([up_face |-> Unwrap(up_face.value),
                      down_face |-> Unwrap(down_face.value),
                      up_handler |-> Unwrap(up_handler.value),
                      down_handler |-> Unwrap(down_handler.value)])

\* Result::unwrap replaced by "?"
unwrap_as_question_mark(r) == r

\* Result::unwrap: an Err does not return
unwrap(r) == IF r.tag = "Ok" THEN r ELSE Failure("panic")

\* The button of config.buttons that from_config builds and unwraps.
DeclaredButtonBuilt(device_type, config, defaults) ==
    unwrap(ButtonSetup_from_config_built(device_type, config, defaults))

\* The results of the inline buttons of a page, in the order of the loop of
\* Page::from_config_with_named_buttons.
PageButtonsBuilt(device_type, page_config, defaults) ==
    [i \in DOMAIN page_config.buttons |->
        IF page_config.buttons[i].button.tag = "ButtonName"
        THEN OkValue(None)
        ELSE ButtonSetup_from_config_built(
                 device_type, page_config.buttons[i].button.setup, defaults)]

\* The configuration cut after its first buttons and pages, without the
\* steps of from_config that follow the loop over the pages.
CutConfig(config, num_buttons_kept, num_pages_kept) ==
    [config EXCEPT
        !.buttons = IF IsSome(@) THEN Some(SubSeq(Unwrap(@), 1, num_buttons_kept))
                    ELSE None,
        !.pages = SubSeq(@, 1, num_pages_kept),
        !.init_script = None,
        !.default_pages = None]

\* The results of from_config that stops with the failure `failure` after
\* the part of it that `cut` configures: an error of that part comes first.
StoppedAfter(cut, failure) ==
    {IF IsSome(r.err) THEN [tag |-> Unwrap(r.err).kind, self |-> None]
     ELSE [tag |-> failure.tag, self |-> None] : r \in from_config(cut)}

\* The results of the buttons of config.buttons, in the order of the loop.
DeclaredButtonsBuilt(device_type, config_buttons, defaults) ==
    [i \in DOMAIN config_buttons |->
        DeclaredButtonBuilt(device_type, config_buttons[i], defaults)]

\* For each page, the failure its "?" returns early with, if any.
PagesBuilt(device_type, page_configs, defaults) ==
    [k \in DOMAIN page_configs |->
        FirstFailure(PageButtonsBuilt(device_type, page_configs[k], defaults))]

\* The first index of a loop that is in the set.
First(indices) == CHOOSE i \in indices : \A j \in indices : i <= j

\* AppState::from_config after the defaults, given the results of building
\* the declared buttons, the pages and the init script: the first of them
\* that fails stops construction, after the failures of what precedes it.
\* The synthesized "empty" button has a well-formed color and nothing else,
\* its unwrap never fails.
from_config_stops(config, config_buttons, declared, page_failure, init_handler) ==
    LET failing_buttons == {i \in DOMAIN declared : declared[i].tag # "Ok"}
        failing_pages == {k \in DOMAIN page_failure : IsSome(page_failure[k])}
    IN  IF failing_buttons # {}
        THEN StoppedAfter(
                 CutConfig(config, First(failing_buttons) - 1, 0),
                 IF \E j \in 1 .. First(failing_buttons) - 1 :
                       config_buttons[j].name =
                           config_buttons[First(failing_buttons)].name
                 THEN Failure("DuplicateNamedButton")
                 ELSE declared[First(failing_buttons)])
        ELSE IF failing_pages # {}
        THEN StoppedAfter(
                 CutConfig(config, Len(config_buttons), First(failing_pages) - 1),
                 Unwrap(page_failure[First(failing_pages)]))
        ELSE IF init_handler.tag # "Ok"
        THEN StoppedAfter(CutConfig(config, Len(config_buttons), Len(config.pages)),
                          init_handler)
        ELSE {IF IsSome(r.err) THEN [tag |-> Unwrap(r.err).kind, self |-> None]
              ELSE [tag |-> "Ok", self |-> Some(r.self)] : r \in from_config(config)}

\* Option::unwrap_or(Vec::new()) of config.buttons
ConfigButtons(config) ==
    IF IsSome(config.buttons) THEN Unwrap(config.buttons) ELSE <<>>

\* AppState::from_config with the faces drawn and the handler files read:
\* the set of results construction can have.
from_config_built(device_type, config) ==
    LET defaults == Defaults_from_config(config.defaults)
    IN  IF defaults.tag # "Ok" THEN {[tag |-> defaults.tag, self |-> None]}
        ELSE from_config_stops(
                 config, ConfigButtons(config),
                 DeclaredButtonsBuilt(device_type, ConfigButtons(config),
                                      Unwrap(defaults.value)),
                 PagesBuilt(device_type, config.pages, Unwrap(defaults.value)),
                 OptionalHandler(config.init_script))

\* The faces of the configurations: a well-formed one, then one defect each.
GoodFaceConfig ==
    [color |-> Some(HEXString(<<"#", "F", "F", "0", "0", "0", "0">>)),
     file |-> Some("icon"), label |-> Some(JustText("ok")),
     sublabel |-> None, superlabel |-> None]

MalformedColor == Some(HEXString(<<"r", "e", "d">>))

DefectiveFaceConfigs ==
    {[GoodFaceConfig EXCEPT !.color = MalformedColor],
     [GoodFaceConfig EXCEPT !.color = Some(HEXString(<<>>))],
     [GoodFaceConfig EXCEPT !.file = Some("missing")],
     [GoodFaceConfig EXCEPT !.file = Some("broken")],
     [GoodFaceConfig EXCEPT !.sublabel = Some(WithColor("sub", MalformedColor))]}

\* The buttons of the configurations: without a defect, or with defects in
\* the faces and the handlers.
ButtonSettings ==
    {[up_face |-> up_face, down_face |-> down_face,
      up_handler |-> up_handler, down_handler |-> down_handler] :
        up_face \in {None, Some(GoodFaceConfig)}
                        \cup {Some(f) : f \in DefectiveFaceConfigs},
        down_face \in {None, Some(GoodFaceConfig),
                       Some([GoodFaceConfig EXCEPT !.color = MalformedColor])},
        up_handler \in {None, Some(AsCode("print('up')")), Some(AsFile("handler.py")),
                        Some(AsFile("missing.py"))},
        down_handler \in {None, Some(AsFile("missing.py"))}}

GoodButtonSetting ==
    [up_face |-> Some(GoodFaceConfig), down_face |-> None,
     up_handler |-> Some(AsFile("handler.py")), down_handler |-> None]

\* A button of config.buttons
DeclaredWith(name, setting) == [name |-> name] @@ setting

\* A page with one inline button
PageWith(page_name, button_name, setting) ==
    [name |-> page_name, on_app |-> None,
     buttons |-> <<InlineButton(0, 0, button_name, setting.up_face,
                                setting.down_face, setting.up_handler,
                                setting.down_handler)>>]

BuiltConfig(defaults, buttons, pages, init_script) ==
    [defaults |-> defaults, buttons |-> buttons, pages |-> pages,
     init_script |-> init_script, default_pages |-> Some(<<"p">>)]

\* One button setting in a declared button, in the inline button of a
\* page, or in both; behind a declared button or a page that repeats a
\* name; with defaults and an init script that are well-formed or not.
BuiltConfigs ==
    UNION {
        {BuiltConfig(None, Some(<<DeclaredWith("a", s)>>),
                     <<PageWith("p", Some("b"), GoodButtonSetting)>>, None),
         BuiltConfig(None, Some(<<DeclaredWith("a", GoodButtonSetting)>>),
                     <<PageWith("p", Some("b"), s)>>, None),
         BuiltConfig(None, None, <<PageWith("p", None, s)>>,
                     Some(AsFile("handler.py"))),
         BuiltConfig(None, Some(<<DeclaredWith("a", s)>>),
                     <<PageWith("p", Some("b"), s)>>, None),
         BuiltConfig(None, Some(<<DeclaredWith("a", GoodButtonSetting),
                                  DeclaredWith("a", s)>>),
                     <<PageWith("p", Some("b"), GoodButtonSetting)>>, None),
         BuiltConfig(None, Some(<<DeclaredWith("a", GoodButtonSetting)>>),
                     <<PageWith("q", Some("a"), GoodButtonSetting),
                       PageWith("p", Some("b"), s)>>, None),
         BuiltConfig(Some(DefaultsConfig(MalformedColor, None)),
                     Some(<<DeclaredWith("a", s)>>),
                     <<PageWith("p", Some("b"), GoodButtonSetting)>>, None),
         BuiltConfig(Some(DefaultsConfig(None, Some(RGB(1, 2, 3)))),
                     Some(<<DeclaredWith("a", GoodButtonSetting)>>),
                     <<PageWith("p", Some("b"), s)>>,
                     Some(AsFile("missing.py")))}
        : s \in ButtonSettings}

BuiltInit ==
    /\ \E config \in BuiltConfigs :
        result = [op |-> "config", config |-> config, tag |-> ""]
    /\ app_state = None
    /\ steps = 0
    /\ trace = <<>>
    /\ NoThreads

\* AppState::from_config; app_state is the state when it succeeds.
ConstructBuilt ==
    /\ result.op = "config"
    /\ \E r \in from_config_built([button_image_size |-> <<1, 1>>], result.config) :
        /\ result' = [result EXCEPT !.op = "from_config", !.tag = r.tag]
        /\ app_state' = r.self
    /\ UNCHANGED <<steps, trace, threads>>

BuiltSpec == BuiltInit /\ [][ConstructBuilt]_vars

\* ------------------------------------------------------------------------
\* Vocabulary of the properties
\* ------------------------------------------------------------------------

\* The slots a page claims.
PageClaims(page) ==
    {to_button_index(page.buttons[k].position) : k \in DOMAIN page.buttons}

\* The names a page binds to a slot.
BindingNames(page, id) ==
    {page.buttons[k].button_name :
        k \in {l \in DOMAIN page.buttons :
                 to_button_index(page.buttons[l].position) = id}}

\* No page binds a slot twice.
UniqueBindings(pages) ==
    \A n \in DOMAIN pages : \A k, l \in DOMAIN pages[n].buttons :
        k # l => to_button_index(pages[n].buttons[k].position)
                 # to_button_index(pages[n].buttons[l].position)

\* The name the last page of the stack that claims the slot binds to it.
StackWinner(pages, stack, id) ==
    LET ks == {k \in DOMAIN stack :
                 stack[k] \in DOMAIN pages /\ id \in PageClaims(pages[stack[k]])}
    IN  IF ks = {} THEN "empty"
        ELSE LET last == CHOOSE k \in ks : \A l \in ks : l <= k
             IN  CHOOSE n \in BindingNames(pages[stack[last]], id) : TRUE

\* The face a button named name shows in press state ps, if any.
FaceOf(named_buttons, name, ps) ==
    IF name \notin DOMAIN named_buttons THEN None
    ELSE LET s == named_buttons[name]
         IN  CASE ps = "Up" /\ IsSome(s.up_face) -> s.up_face
               [] ps = "Up" /\ ~IsSome(s.up_face) -> s.down_face
               [] ps = "Down" /\ IsSome(s.down_face) -> s.down_face
               [] ps = "Down" /\ ~IsSome(s.down_face) -> s.up_face

\* The entries of a flush result, as a set.
FaceEntries(faces) == {faces[k] : k \in DOMAIN faces}

\* ------------------------------------------------------------------------
\* Properties
\* ------------------------------------------------------------------------

\* C1: page-stack precedence. When no page binds a slot twice, in every
\* reachable state each slot's occupant is the binding of the last page of
\* the page stack that claims the slot, and "empty" when no loaded page does.
C1_PageStackPrecedence ==
    UniqueBindings(app_state.pages) =>
        \A id \in Slots :
            app_state.buttons[id].setup =
                Name(StackWinner(app_state.pages, app_state.loaded_pages, id))

\* C1 witness: page0 was unloaded from under page2 and page1; the first slot,
\* claimed by both remaining pages, holds the binding of page1, the later one.
C1_Witness ==
    /\ result.op = "unload_page" /\ result.page_name = "page0"
    /\ app_state.loaded_pages = <<"page2", "page1">>
    /\ app_state.buttons[0].setup = Name("page1_a")
    /\ app_state.buttons[total_num_buttons - 1].setup = Name("ghost")

\* C2: unload_page of a known page removes the name from the stack; every
\* slot the page claims ends with the occupant of the most recently loaded
\* remaining page claiming it (else "empty") and an absent render-cache;
\* every other slot keeps occupant, press state and render-cache; the flush
\* that follows returns the remaining occupant's face for the claimed slots.
C2_UnloadPage ==
    [][\A name \in DOMAIN app_state.pages :
        /\ (result'.op = "unload_page" /\ result'.page_name = name) =>
            /\ ~IsSome(result'.err)
            /\ app_state'.loaded_pages =
                   SelectSeq(app_state.loaded_pages, LAMBDA n : n # name)
            /\ \A id \in Slots :
                IF id \in PageClaims(app_state.pages[name])
                THEN /\ app_state'.buttons[id].setup =
                            Name(StackWinner(app_state.pages,
                                             app_state'.loaded_pages, id))
                     /\ app_state'.buttons[id].render_state = None
                ELSE app_state'.buttons[id] = app_state.buttons[id]
        /\ (result.op = "unload_page" /\ result.page_name = name
            /\ result'.op = "flush") =>
            \A id \in PageClaims(app_state.pages[name]) :
                LET face == FaceOf(app_state.named_buttons,
                                   StackWinner(app_state.pages,
                                               app_state.loaded_pages, id),
                                   app_state.buttons[id].press_state)
                IN  IsSome(face) =>
                        [id |-> id, face |-> Unwrap(face)]
                            \in FaceEntries(result'.faces)
      ]_vars

\* C2 witness: unload_page("page2") has returned with page0 and page1 left in
\* the stack; the first slot, which page2 claims, holds page1's button and is
\* not yet rendered.
C2_Witness ==
    /\ result.op = "unload_page" /\ result.page_name = "page2"
    /\ app_state.loaded_pages = <<"page0", "page1">>
    /\ app_state.buttons[0].setup = Name("page1_a")
    /\ app_state.buttons[0].render_state = None

\* C3: load_page of a known page appends the name as the last element of the
\* stack and sets every bound slot's occupant to the binding with an absent
\* render-cache; slots the page does not bind keep occupant, press state and
\* render-cache; the flush that follows returns the page's face for every
\* bound slot whose binding has one.
C3_LoadPage ==
    [][\A name \in DOMAIN app_state.pages :
        /\ (result'.op = "load_page" /\ result'.page_name = name) =>
            /\ ~IsSome(result'.err)
            /\ app_state'.loaded_pages = Append(app_state.loaded_pages, name)
            /\ \A id \in Slots :
                IF id \in PageClaims(app_state.pages[name])
                THEN /\ app_state'.buttons[id].setup.tag = "Name"
                     /\ app_state'.buttons[id].setup.name
                            \in BindingNames(app_state.pages[name], id)
                     /\ app_state'.buttons[id].render_state = None
                     /\ app_state'.buttons[id].press_state
                            = app_state.buttons[id].press_state
                ELSE app_state'.buttons[id] = app_state.buttons[id]
        /\ (result.op = "load_page" /\ result.page_name = name
            /\ result'.op = "flush") =>
            \A id \in PageClaims(app_state.pages[name]) :
                \A n \in BindingNames(app_state.pages[name], id) :
                    LET face == FaceOf(app_state.named_buttons, n,
                                       app_state.buttons[id].press_state)
                    IN  IsSome(face) =>
                            [id |-> id, face |-> Unwrap(face)]
                                \in FaceEntries(result'.faces)
      ]_vars

\* C3 witness: page1 was loaded over page0 and flushed; the flush returned
\* the faces of page1's two buttons and nothing else.
C3_Witness ==
    /\ result.op = "flush"
    /\ app_state.loaded_pages = <<"page0", "page1">>
    /\ FaceEntries(result.faces) =
          {[id |-> 0,
            face |-> Unwrap(app_state.named_buttons["page1_a"].up_face)],
           [id |-> DeviceCols - 1,
            face |-> Unwrap(app_state.named_buttons["page1_b"].down_face)]}

\* The render-cache is absent or differs from the press state.
CacheStale(button) ==
    \/ button.render_state = None
    \/ button.render_state = Some(IF button.press_state = "Up" THEN "Down" ELSE "Up")

\* C4: a slot needs rendering iff its render-cache is absent or differs from
\* its press state: a new slot needs rendering; after a flush no slot does; a
\* press or release that changes the press state relative to the last flush
\* makes the slot need rendering; a changed occupant makes it need rendering;
\* a press followed by a release without a flush in between leaves a flushed
\* slot not needing rendering.
C4_NeedsRendering ==
    /\ [](\A id \in Slots :
            /\ needs_rendering(app_state.buttons[id]) <=> CacheStale(app_state.buttons[id])
            /\ steps = 0 => needs_rendering(app_state.buttons[id])
            /\ result.op = "flush" => ~needs_rendering(app_state.buttons[id]))
    /\ [][\A id \in Slots :
            /\ (result'.op = "on_button_pressed" /\ result'.button_id = id
                /\ app_state.buttons[id].render_state = Some("Up"))
                   => needs_rendering(app_state'.buttons[id])
            /\ (result'.op = "on_button_released" /\ result'.button_id = id
                /\ app_state.buttons[id].render_state = Some("Down"))
                   => needs_rendering(app_state'.buttons[id])
            /\ app_state'.buttons[id].setup # app_state.buttons[id].setup
                   => needs_rendering(app_state'.buttons[id])
            /\ (result.op = "on_button_pressed" /\ result.button_id = id
                /\ app_state.buttons[id].render_state = Some("Up")
                /\ result'.op = "on_button_released" /\ result'.button_id = id)
                   => ~needs_rendering(app_state'.buttons[id])
         ]_vars

\* C4 witness: slot 0, last flushed while Up, has been released as the third
\* call and does not need rendering.
C4_Witness ==
    /\ result.op = "on_button_released" /\ result.button_id = 0
    /\ steps = 3
    /\ app_state.buttons[0].render_state = Some("Up")
    /\ app_state.buttons[0].press_state = "Up"
    /\ ~needs_rendering(app_state.buttons[0])

\* The slots a flush returns an entry for: they need rendering and their
\* occupant resolves to a setup with a face.
SlotsToRender(self) ==
    {id \in Slots :
        /\ CacheStale(self.buttons[id])
        /\ self.buttons[id].setup.tag = "Name"
        /\ IsSome(FaceOf(self.named_buttons, self.buttons[id].setup.name,
                         self.buttons[id].press_state))}

\* C5: a flush returns one entry per slot that needs rendering and whose
\* setup has a face, sets the render-cache of every slot that needed
\* rendering to its press state and changes no press state, occupant or page
\* stack; after it no slot needs rendering, a flush right after a flush
\* returns nothing, and the first flush after construction with the default
\* page that binds every slot returns one entry per slot.
C5_Flush ==
    [][result'.op = "flush" =>
        /\ Len(result'.faces) = Cardinality(SlotsToRender(app_state))
        /\ {result'.faces[k].id : k \in DOMAIN result'.faces} = SlotsToRender(app_state)
        /\ \A id \in Slots :
            /\ app_state'.buttons[id].press_state = app_state.buttons[id].press_state
            /\ app_state'.buttons[id].setup = app_state.buttons[id].setup
            /\ CacheStale(app_state.buttons[id]) =>
                  app_state'.buttons[id].render_state
                      = Some(app_state.buttons[id].press_state)
            /\ ~CacheStale(app_state.buttons[id]) =>
                  app_state'.buttons[id].render_state
                      = app_state.buttons[id].render_state
            /\ ~CacheStale(app_state'.buttons[id])
        /\ app_state'.loaded_pages = app_state.loaded_pages
        /\ result.op = "flush" => result'.faces = <<>>
        /\ (steps = 0 /\ app_state.loaded_pages = <<"page0">>) =>
              Len(result'.faces) = total_num_buttons
      ]_vars

\* C5 witness: the second of two flushes after construction with the default
\* page returned nothing.
C5_Witness ==
    /\ result.op = "flush" /\ result.faces = <<>>
    /\ steps = 2
    /\ app_state.loaded_pages = <<"page0">>
    /\ \A id \in Slots : app_state.buttons[id].render_state = Some("Up")

\* The handler of a named button for a press ("down_handler") or a release
\* ("up_handler"), if the name is registered and the setup has one.
HandlerOf(named_buttons, name, field) ==
    IF name \in DOMAIN named_buttons THEN named_buttons[name][field] ELSE None

\* C7: on_button_pressed on a valid slot sets its press state to Down and
\* returns the down-handler of the setup its occupant resolves to (nothing
\* if there is none); on_button_released sets it to Up and returns the
\* up-handler; neither changes an occupant, another slot or the page stack.
C7_PressRelease ==
    [][\A id \in Slots :
        /\ (result'.op = "on_button_pressed" /\ result'.button_id = id) =>
            /\ app_state'.buttons[id].press_state = "Down"
            /\ result'.handler = HandlerOf(app_state.named_buttons,
                                     app_state.buttons[id].setup.name, "down_handler")
        /\ (result'.op = "on_button_released" /\ result'.button_id = id) =>
            /\ app_state'.buttons[id].press_state = "Up"
            /\ result'.handler = HandlerOf(app_state.named_buttons,
                                     app_state.buttons[id].setup.name, "up_handler")
        /\ (result'.op \in {"on_button_pressed", "on_button_released"}
            /\ result'.button_id = id) =>
            /\ app_state'.buttons[id].setup = app_state.buttons[id].setup
            /\ \A other \in Slots \ {id} :
                  app_state'.buttons[other] = app_state.buttons[other]
            /\ app_state'.loaded_pages = app_state.loaded_pages
      ]_vars

\* C7 witness: with the default page loaded, slot 0 was pressed and released;
\* the release returned the up-handler of the page0 button at the left end
\* of the mirrored first row.
C7_Witness ==
    /\ result.op = "on_button_released" /\ result.button_id = 0
    /\ app_state.loaded_pages = <<"page0">>
    /\ result.handler =
          Some([script |-> "on_page0_button" \o ToString(DeviceCols - 1) \o "_up"])
    /\ app_state.buttons[0].press_state = "Up"
    /\ app_state.buttons[0].render_state = Some("Down")

\* C8: on_button_pressed and on_button_released with a slot index outside
\* the slots return nothing and leave the whole AppState unchanged.
C8_UnknownSlot ==
    [][(result'.op \in {"on_button_pressed", "on_button_released"}
        /\ result'.button_id \notin Slots) =>
            /\ result'.handler = None
            /\ app_state' = app_state
      ]_vars

\* C8 witness: a press with the slot count as index has returned nothing
\* while a slot is held Down.
C8_Witness ==
    /\ result.op = "on_button_pressed"
    /\ result.button_id = total_num_buttons
    /\ result.handler = None
    /\ \E id \in Slots : app_state.buttons[id].press_state = "Down"

\* C9: load_page and unload_page with a name that is not a configured page
\* fail with PageNotFound and leave the page stack and every slot unchanged.
C9_PageNotFound ==
    [][(result'.op \in {"load_page", "unload_page"}
        /\ result'.page_name \notin DOMAIN app_state.pages) =>
            /\ result'.err = Some([kind |-> "PageNotFound", name |-> result'.page_name])
            /\ app_state'.loaded_pages = app_state.loaded_pages
            /\ app_state'.buttons = app_state.buttons
      ]_vars

\* C9 witness: unload_page of an unknown page has failed with two pages
\* loaded.
C9_Witness ==
    /\ result.op = "unload_page" /\ result.page_name = "unknown_page"
    /\ result.err = Some([kind |-> "PageNotFound", name |-> "unknown_page"])
    /\ Len(app_state.loaded_pages) = 2

\* The slots whose occupant names a button that is not registered.
UnregisteredSlots(self) ==
    {id \in Slots : /\ self.buttons[id].setup.tag = "Name"
                    /\ self.buttons[id].setup.name \notin DOMAIN self.named_buttons}

\* C10: for a slot whose occupant names an unregistered button, press and
\* release return no handler and still update the press state, and a flush
\* returns no face for it and still sets its render-cache.
C10_UnknownNamedButton ==
    [][\A id \in UnregisteredSlots(app_state) :
        /\ (result'.op = "on_button_pressed" /\ result'.button_id = id) =>
            /\ result'.handler = None
            /\ app_state'.buttons[id].press_state = "Down"
        /\ (result'.op = "on_button_released" /\ result'.button_id = id) =>
            /\ result'.handler = None
            /\ app_state'.buttons[id].press_state = "Up"
        /\ result'.op = "flush" =>
            /\ \A k \in DOMAIN result'.faces : result'.faces[k].id # id
            /\ app_state'.buttons[id].render_state
                  = Some(app_state.buttons[id].press_state)
      ]_vars

\* C10 witness: the last slot holds page2's binding to the undeclared name,
\* was pressed and then flushed: its render-cache is Down.
C10_Witness ==
    /\ result.op = "flush"
    /\ app_state.buttons[total_num_buttons - 1].setup = Name("ghost")
    /\ "ghost" \notin DOMAIN app_state.named_buttons
    /\ app_state.buttons[total_num_buttons - 1].press_state = "Down"
    /\ app_state.buttons[total_num_buttons - 1].render_state = Some("Down")

\* The last n calls of the trace are the given operations, the button events
\* among them on slot id.
TraceEndsWith(ops, id) ==
    /\ Len(trace) >= Len(ops)
    /\ \A k \in DOMAIN ops :
        LET e == trace[Len(trace) - Len(ops) + k]
        IN  /\ e.op = ops[k]
            /\ e.op # "flush" => e.button_id = id

\* The slots that needed rendering before the n-th last call.
DirtyBefore(n) == trace[Len(trace) + 1 - n].dirty

\* The slots that were Down before the n-th last call.
DownBefore(n) == trace[Len(trace) + 1 - n].down

\* C6 as stated: pressing and then releasing a slot when every face was
\* flushed leaves exactly that slot needing rendering, so that the flush
\* after both calls returns exactly one entry, for that slot, and a flush
\* right after a flush returns nothing.
C6_AsStated ==
    \A id \in Slots :
        /\ (TraceEndsWith(<<"on_button_pressed", "on_button_released">>, id)
            /\ DirtyBefore(2) = {})
               => Dirty(app_state) = {id}
        /\ (TraceEndsWith(<<"on_button_pressed", "on_button_released", "flush">>, id)
            /\ DirtyBefore(3) = {})
               => /\ Len(result.faces) = 1
                  /\ result.faces[1].id = id
        /\ TraceEndsWith(<<"flush", "flush">>, id) => result.faces = <<>>

\* C6 amended: pressing and then releasing a slot that was Up and did not
\* need rendering leaves it not needing rendering and the flush after both
\* calls returns no entry for it; when no slot needed rendering before the
\* press, that flush returns no entry at all; a flush right after a flush
\* returns nothing.
C6_PressReleaseFlush ==
    \A id \in Slots :
        /\ (TraceEndsWith(<<"on_button_pressed", "on_button_released">>, id)
            /\ id \notin DirtyBefore(2) /\ id \notin DownBefore(2))
               => id \notin Dirty(app_state)
        /\ (TraceEndsWith(<<"on_button_pressed", "on_button_released", "flush">>, id)
            /\ id \notin DirtyBefore(3) /\ id \notin DownBefore(3))
               => \A k \in DOMAIN result.faces : result.faces[k].id # id
        /\ (TraceEndsWith(<<"on_button_pressed", "on_button_released", "flush">>, id)
            /\ DirtyBefore(3) = {} /\ id \notin DownBefore(3))
               => result.faces = <<>>
        /\ TraceEndsWith(<<"flush", "flush">>, id) => result.faces = <<>>

\* C6 witness: flush, press slot 0, release slot 0, flush; the last flush
\* returned nothing.
C6_Witness ==
    /\ Len(trace) = 4
    /\ trace[1].op = "flush"
    /\ TraceEndsWith(<<"on_button_pressed", "on_button_released", "flush">>, 0)
    /\ DirtyBefore(3) = {} /\ DownBefore(3) = {}
    /\ result.op = "flush" /\ result.faces = <<>>

\* The pages with a condition that matches the window.
MatchingPages(pages, window_info) ==
    {n \in DOMAIN pages :
        \E k \in DOMAIN pages[n].on_foreground_window :
            matches(pages[n].on_foreground_window[k], window_info)}

\* The number of times a page is in the page stack.
Count(stack, n) == Cardinality({k \in DOMAIN stack : stack[k] = n})

\* C11 as stated: after on_foreground_window(w) every page with a condition
\* matching w is in the page stack; a press that follows the event on a slot
\* bound by exactly one of the pages the event loaded returns the down-handler
\* of that page's binding; a page without conditions is not loaded by the
\* event.
C11_AsStated ==
    [][/\ result'.op = "on_foreground_window" =>
            /\ \A n \in MatchingPages(app_state.pages, Unwrap(result'.window)) :
                    Count(app_state'.loaded_pages, n) > 0
            /\ \A n \in DOMAIN app_state.pages :
                    app_state.pages[n].on_foreground_window = <<>> =>
                        Count(app_state'.loaded_pages, n)
                            = Count(app_state.loaded_pages, n)
       /\ (result.op = "on_foreground_window"
           /\ result'.op = "on_button_pressed" /\ result'.button_id \in Slots) =>
            \A n \in MatchingPages(app_state.pages, Unwrap(result.window)) :
                (\A m \in MatchingPages(app_state.pages, Unwrap(result.window)) :
                    result'.button_id \in PageClaims(app_state.pages[m]) <=> m = n)
                => \A b \in BindingNames(app_state.pages[n], result'.button_id) :
                      result'.handler
                          = HandlerOf(app_state.named_buttons, b, "down_handler")
      ]_vars

\* The pages in a list of page names.
Listed(names) == {names[k] : k \in DOMAIN names}

\* C11, for the pages the event does not also list for unloading: after
\* on_foreground_window(w) every page with a condition matching w that is not
\* in pages_to_unload is in the page stack, and a press that follows on a
\* slot bound by exactly one matching page returns the down-handler of that
\* page's binding; a page without conditions is not loaded by the event.
C11_ExceptUnloaded ==
    [][/\ result'.op = "on_foreground_window" =>
            /\ \A n \in MatchingPages(app_state.pages, Unwrap(result'.window))
                            \ Listed(result'.pages_to_unload) :
                    Count(app_state'.loaded_pages, n) > 0
            /\ \A n \in DOMAIN app_state.pages :
                    app_state.pages[n].on_foreground_window = <<>> =>
                        Count(app_state'.loaded_pages, n)
                            = Count(app_state.loaded_pages, n)
       /\ (result.op = "on_foreground_window"
           /\ result'.op = "on_button_pressed" /\ result'.button_id \in Slots) =>
            \A n \in MatchingPages(app_state.pages, Unwrap(result.window))
                        \ Listed(result.pages_to_unload) :
                (\A m \in MatchingPages(app_state.pages, Unwrap(result.window)) :
                    result'.button_id \in PageClaims(app_state.pages[m]) <=> m = n)
                => \A b \in BindingNames(app_state.pages[n], result'.button_id) :
                      result'.handler
                          = HandlerOf(app_state.named_buttons, b, "down_handler")
      ]_vars

\* The number of conditions of a page that match the window.
NumMatching(page, window_info) ==
    Cardinality({k \in DOMAIN page.on_foreground_window :
                    matches(page.on_foreground_window[k], window_info)})

UnloadingPages(self, window_info) ==
    {n \in DOMAIN self.pages :
        /\ self.pages[n].unload_if_not_loaded
        /\ Count(self.loaded_pages, n) > 0
        /\ NumMatching(self.pages[n], window_info)
              < Len(self.pages[n].on_foreground_window)}

FromFarEdge(index, n) == IF index < 0 THEN n + index ELSE index

\* The (row, col) pair lies on the device.
InRange(config, device_type) ==
    /\ -device_type.rows <= config.row /\ config.row < device_type.rows
    /\ -device_type.cols <= config.col /\ config.col < device_type.cols

\* C18: on a device with R rows and C columns an in-range (row, col) resolves
\* to row' * C + (C - 1 - col'), row' and col' counting a negative index from
\* the far edge: (0, -1) gives 0, (-1, 0) gives R*C - 1, (0, 0) gives C - 1
\* and (-1, -1) gives R*C - C.
C18_InRangeIndex ==
    (result.op = "to_button_index" /\ InRange(result.config, result.device_type)) =>
        LET R == result.device_type.rows
            C == result.device_type.cols
            row == FromFarEdge(result.config.row, R)
            col == FromFarEdge(result.config.col, C)
            corner == [row |-> result.config.row, col |-> result.config.col]
        IN  /\ ~result.panicked
            /\ result.index = Some(row * C + (C - 1 - col))
            /\ corner = [row |-> 0, col |-> -1] => result.index = Some(0)
            /\ corner = [row |-> -1, col |-> 0] => result.index = Some(R * C - 1)
            /\ corner = [row |-> 0, col |-> 0] => result.index = Some(C - 1)
            /\ corner = [row |-> -1, col |-> -1] => result.index = Some(R * C - C)

\* C18 witness: (-1, -1) was resolved on a device with more columns than rows
\* and more than one of each.
C18_Witness ==
    /\ result.op = "to_button_index"
    /\ result.config = [row |-> -1, col |-> -1]
    /\ result.device_type = [rows |-> DeviceRows, cols |-> DeviceCols + 1]
    /\ result.index = Some(DeviceRows * (DeviceCols + 1) - (DeviceCols + 1))

\* Clamping to 0 .. n - 1.
Clamp(x, n) == Min(n - 1, Max(0, x))

\* The index the resolution rule gives: each axis counted from the far edge
\* when negative, clamped to the device, the column mirrored.
ClampedIndex(config, device_type) ==
    LET R == device_type.rows
        C == device_type.cols
    IN  Clamp(FromFarEdge(config.row, R), R) * C
          + (C - 1 - Clamp(FromFarEdge(config.col, C), C))

\* C19 as stated: for every configured (row, col), resolution completes
\* without arithmetic overflow and yields the index with each out-of-range
\* axis clamped to its nearest edge.
C19_AsStated ==
    result.op = "to_button_index" =>
        /\ ~result.panicked
        /\ result.index = Some(ClampedIndex(result.config, result.device_type))

\* C19, for values that fit the u8 arithmetic: with row in -255 .. 255 and
\* col in -256 .. 254 no addition overflows and the index is the clamped one.
C19_WithinU8 ==
    (/\ result.op = "to_button_index"
     /\ result.config.row \in -255 .. 255
     /\ result.config.col \in -256 .. 254) =>
        /\ ~to_button_index_overflows(Unwrap(result.position))
        /\ ~result.panicked
        /\ result.index = Some(ClampedIndex(result.config, result.device_type))

\* C14: in every state reached by press, release, flush, load_page,
\* unload_page and on_foreground_window the slots are exactly the indices
\* 0 .. rows * cols - 1 of the device, as at construction, and every binding
\* of every page resolves to one of them.
C14_SlotCount ==
    /\ DOMAIN app_state.buttons = 0 .. (DeviceRows * DeviceCols - 1)
    /\ \A n \in DOMAIN app_state.pages :
        \A k \in DOMAIN app_state.pages[n].buttons :
            to_button_index(app_state.pages[n].buttons[k].position)
                \in DOMAIN app_state.buttons

\* C14 witness: after three calls, the last a window event, a slot is Down,
\* at least two pages are stacked and the device's slots are all there.
C14_Witness ==
    /\ result.op = "on_foreground_window"
    /\ steps = 3
    /\ Len(app_state.loaded_pages) >= 2
    /\ \E id \in Slots : app_state.buttons[id].press_state = "Down"
    /\ Cardinality(DOMAIN app_state.buttons) = total_num_buttons

\* The name an inline page button is registered under: its own, or the one
\* synthesized from the page name and the slot.
InlineName(page_name, button_config) ==
    IF IsSome(button_config.button.setup.name)
    THEN Unwrap(button_config.button.setup.name)
    ELSE "page_" \o page_name \o "_button_"
            \o ToString(to_button_index(ButtonPosition_from_config(button_config.position)))

\* The button declarations of a configuration: where each is (0 for
\* config.buttons, else the number of the page, and the place in the list),
\* its name and the setup it declares.
Declarations(config) ==
    {[page |-> 0, at |-> i, name |-> Unwrap(config.buttons)[i].name,
      setup |-> ButtonSetup_from_config(Unwrap(config.buttons)[i])] :
        i \in IF IsSome(config.buttons) THEN DOMAIN Unwrap(config.buttons) ELSE {}}
    \cup UNION {
        {[page |-> j, at |-> k,
          name |-> InlineName(config.pages[j].name, config.pages[j].buttons[k]),
          setup |-> ButtonSetup_from_config(config.pages[j].buttons[k].button.setup)] :
            k \in {l \in DOMAIN config.pages[j].buttons :
                     config.pages[j].buttons[l].button.tag = "Button"}} :
        j \in DOMAIN config.pages}

\* Two declarations of the configuration share a name.
Clashes(config) ==
    {dd \in Declarations(config) \X Declarations(config) :
        dd[1] # dd[2] /\ dd[1].name = dd[2].name}

\* Construction has ended with DuplicateNamedButton.
FailedWithDuplicate ==
    /\ result.op = "from_config"
    /\ IsSome(result.err)
    /\ Unwrap(result.err).kind = "DuplicateNamedButton"

\* Construction has succeeded.
Constructed == result.op = "from_config" /\ ~IsSome(result.err)

\* C15: after a successful construction "empty" resolves in the registry:
\* to the setup of the declaration when config.buttons declares "empty", and
\* otherwise to a synthesized setup with a plain up-face and no down-face or
\* handlers; a DuplicateNamedButton error for "empty" is raised only when, in
\* config.buttons or in the pages, "empty" is declared twice or by a page.
C15_EmptyResolves ==
    LET declared == {d \in Declarations(result.config) :
                        d.name = "empty" /\ d.page = 0}
    IN  /\ Constructed =>
            /\ "empty" \in DOMAIN Unwrap(app_state).named_buttons
            /\ \A d \in declared :
                Unwrap(app_state).named_buttons["empty"] = d.setup
            /\ declared = {} =>
                Unwrap(app_state).named_buttons["empty"]
                    = [up_face |-> Some([color |-> Some("#000000"), file |-> None,
                                         label |-> None, sublabel |-> None,
                                         superlabel |-> None]),
                       down_face |-> None, up_handler |-> None,
                       down_handler |-> None]
        /\ (FailedWithDuplicate /\ Unwrap(result.err).name = "empty") =>
            \/ Cardinality({d \in Declarations(result.config) : d.name = "empty"}) > 1
            \/ \E d \in Declarations(result.config) : d.name = "empty" /\ d.page > 0

\* C15 witness: construction succeeded on a configuration that declares
\* "empty" after "a" and has two pages; "empty" resolves to the declaration.
C15_Witness ==
    /\ Constructed
    /\ result.config.buttons = Some(<<DeclaredButton("a"), DeclaredButton("empty")>>)
    /\ Len(result.config.pages) = 2
    /\ Unwrap(app_state).named_buttons["empty"]
          = ButtonSetup_from_config(DeclaredButton("empty"))
    /\ Unwrap(app_state).loaded_pages = <<"p">>

\* C15, later states: no operation on the constructed AppState adds a name
\* to the registry or removes one.
C15_RegistryKept ==
    [][DOMAIN app_state'.named_buttons = DOMAIN app_state.named_buttons]_vars

\* C16 as stated: construction fails with DuplicateNamedButton whenever two
\* button declarations share a name, whichever of config.buttons, a named
\* inline page button and an unnamed inline page button each is, in different
\* pages or in the same page.
C16_AsStated ==
    (result.op = "from_config" /\ Clashes(result.config) # {})
        => FailedWithDuplicate

\* C16, for declarations that are not in the same page: construction fails
\* with DuplicateNamedButton whenever two declarations share a name and are
\* in config.buttons or in different entries of config.pages; the name
\* reported is one that is declared twice, or "empty".
C16_AcrossPages ==
    (/\ result.op = "from_config"
     /\ \E dd \in Clashes(result.config) :
            dd[1].page # dd[2].page \/ dd[1].page = 0)
        => /\ FailedWithDuplicate
           /\ \/ Unwrap(result.err).name = "empty"
              \/ \E dd \in Clashes(result.config) :
                    dd[1].name = Unwrap(result.err).name

\* C17 as stated: when all button names of the configuration are unique,
\* construction succeeds and every declared name resolves in the registry.
C17_AsStated ==
    (result.op = "from_config" /\ Clashes(result.config) = {}) =>
        /\ ~IsSome(result.err)
        /\ \A d \in Declarations(result.config) :
            d.name \in DOMAIN Unwrap(app_state).named_buttons

\* C17: when all button names of the configuration are unique and no inline
\* page button is named "empty", construction succeeds and every declared
\* name resolves in the registry to the setup declared for it, for
\* config.buttons and for the inline buttons of every page, loaded or not.
C17_UniqueNamesResolve ==
    (/\ result.op = "from_config"
     /\ Clashes(result.config) = {}
     /\ \A d \in Declarations(result.config) : d.name = "empty" => d.page = 0) =>
        /\ ~IsSome(result.err)
        /\ \A d \in Declarations(result.config) :
            /\ d.name \in DOMAIN Unwrap(app_state).named_buttons
            /\ Unwrap(app_state).named_buttons[d.name] = d.setup

\* C17 witness: construction succeeded with a declared "empty", an unnamed
\* inline button in page "p" and an inline button "a" in page "q", which is
\* not loaded; both inline names resolve.
C17_Witness ==
    /\ Constructed
    /\ result.config.buttons = Some(<<DeclaredButton("empty")>>)
    /\ Unwrap(app_state).loaded_pages = <<"p">>
    /\ DOMAIN Unwrap(app_state).pages = {"p", "q"}
    /\ {d.name : d \in {e \in Declarations(result.config) : e.page = 1}}
          = {"page_p_button_0"}
    /\ {d.name : d \in {e \in Declarations(result.config) : e.page = 2}} = {"a"}
    /\ {"a", "page_p_button_0", "empty"} \subseteq DOMAIN Unwrap(app_state).named_buttons

\* The fields of a window a condition can have a pattern for.
WindowFields == {"title", "executable", "class_name"}

\* C20: matches returns true iff every pattern the condition has matches the
\* corresponding field of the window; a condition without patterns matches
\* every window and one present pattern that does not match makes it fail.
C20_Matches ==
    result.op = "matches" =>
        LET present == {f \in WindowFields : IsSome(result.config[f])}
            failing == {f \in present :
                          result.window[f] \notin Unwrap(result.config[f])}
        IN  /\ result.ret = Some(failing = {})
            /\ present = {} => result.ret = Some(TRUE)
            /\ failing # {} => result.ret = Some(FALSE)

\* C20 witness: a condition without a title pattern, whose executable pattern
\* matches and whose class pattern does not, was evaluated and failed.
C20_Witness ==
    /\ result.op = "matches"
    /\ result.config = [title |-> None, executable |-> Some({"x", "y"}),
                        class_name |-> Some({"x"})]
    /\ result.window = [title |-> "z", executable |-> "y", class_name |-> "z"]
    /\ result.ret = Some(FALSE)

\* ------------------------------------------------------------------------
\* The control loop
\* ------------------------------------------------------------------------

\* The events the loop has applied, in the order it applied them.
Applied ==
    LET applied == SelectSeq(trace, LAMBDA entry : entry.op = "apply")
    IN  [i \in 1 .. Len(applied) |-> applied[i].e]

\* Every event sent has been applied once or waits in the channel, in the
\* order of the sends.
AppliedInOrder == Applied \o receiver = sent

\* Every event is applied right after a flush, on faces that were all handed
\* to the device.
FlushedBeforeApply ==
    /\ \A i \in 1 .. Len(trace) :
        trace[i].op = "apply" => i > 1 /\ trace[i - 1].op = "flush"
    /\ pc = "recv" => Dirty(app_state) = {}

\* The handler an event returned is run next, and nothing else is run.
HandlerRunNext ==
    /\ \A i \in 1 .. Len(trace) :
        /\ trace[i].op = "apply" /\ IsSome(trace[i].handler) =>
            IF i < Len(trace)
            THEN trace[i + 1] = LoopEntry("run_handler", NoEvent, trace[i].handler)
            ELSE pc = "run_handler" /\ handler = trace[i].handler
        /\ trace[i].op = "run_handler" =>
            /\ i > 1
            /\ trace[i - 1].op = "apply"
            /\ trace[i - 1].handler = trace[i].handler
    /\ pc = "recv" => handler = None

\* C21: the loop applies the events in the order they were sent, each one
\* once and none skipped, one per iteration; every event is applied right
\* after a flush; the handler an event returned is run before the next event
\* is received; a send leaves the AppState as it is.
C21_ControlLoop ==
    /\ [](AppliedInOrder /\ FlushedBeforeApply /\ HandlerRunNext)
    /\ [][sent' # sent => app_state' = app_state /\ trace' = trace]_vars

\* Three events were sent while the loop was busy; two are applied, the first
\* one returned a handler that was run, and the third waits in the channel.
C21_Witness ==
    /\ Len(sent) = 3
    /\ Len(Applied) = 2
    /\ Len(receiver) = 1
    /\ sent[1] # sent[2] /\ sent[2] # sent[3] /\ sent[1] # sent[3]
    /\ \E i \in 1 .. Len(trace) :
        trace[i].op = "run_handler" /\ i < Len(trace)
    /\ \E i \in 1 .. Len(trace) : trace[i].op = "apply" /\ trace[i].e = sent[2]
    /\ pc = "recv"

\* The control thread has left the loop: it waits for a lock forever or it
\* has panicked.
Stopped == pc \in {"blocked", "panicked"}

\* C22: a switch to an unknown page that a handler script asks for through
\* state.load_page is reported as PageNotFound and the loop is not stopped.
C22_AsStated ==
    (result.op = "state.load_page" /\ result.page_name \notin DOMAIN app_state.pages)
        => /\ IsSome(result.err)
           /\ Unwrap(result.err).kind = "PageNotFound"
           /\ ~Stopped

\* The other half of the sentence has no case: a window event asks only for
\* pages of the page registry, so it never fails and never stops the loop.
C22_WindowEventsNeverFail ==
    result.op = "on_foreground_window" => ~IsSome(result.err) /\ ~Stopped

\* Every call of state.load_page from a handler stops the loop, whether or
\* not the page is configured.
C22_EverySwitchStops == result.op = "state.load_page" => Stopped

\* ------------------------------------------------------------------------
\* Named buttons updated at run time
\* ------------------------------------------------------------------------

\* The step is a call of set_named_button_up_face.
UpFaceCall == result'.op = "set_named_button_up_face" /\ steps' = steps + 1

\* The call succeeded and stored an up face that has the color it was given.
UpFaceStored ==
    LET N == result'.button_name
        up_face == app_state'.named_buttons[N].up_face
    IN  /\ ~IsSome(result'.err)
        /\ DOMAIN app_state'.named_buttons = DOMAIN app_state.named_buttons
        /\ \A n \in DOMAIN app_state.named_buttons \ {N} :
            app_state'.named_buttons[n] = app_state.named_buttons[n]
        /\ IsSome(up_face)
        /\ IsSome(result'.values.color) =>
            Unwrap(up_face).color = result'.values.color

\* The slots of another occupant are as they were; a slot of occupant N needs
\* rendering and the next flush returns this face for it.
SlotsAfterUpFace(face_for(_)) ==
    LET N == result'.button_name
        flushed == FaceEntries(set_rendered_and_get_rendering_faces(app_state').ret)
    IN  \A id \in Slots :
            IF uses_button(app_state.buttons[id], N)
            THEN /\ needs_rendering(app_state'.buttons[id])
                 /\ [id |-> AsU8(id), face |-> face_for(id)] \in flushed
            ELSE app_state'.buttons[id] = app_state.buttons[id]

\* The call failed with ButtonNotFound and changed nothing.
UpFaceRefused ==
    /\ result'.err = Some([kind |-> "ButtonNotFound", name |-> result'.button_name])
    /\ app_state' = app_state

\* C23 as stated: after set_named_button_up_face(N, ...) succeeds every slot
\* of occupant N needs rendering and the next flush returns the updated up
\* face for it, the other slots keep their render state; for a name that is
\* not in the registry the call fails with ButtonNotFound and changes nothing.
C23_AsStated ==
    [][UpFaceCall =>
        IF result'.button_name \in DOMAIN app_state.named_buttons
        THEN /\ UpFaceStored
             /\ SlotsAfterUpFace(LAMBDA id :
                    Unwrap(app_state'.named_buttons[result'.button_name].up_face))
        ELSE UpFaceRefused]_vars

\* C23, amended: the face the next flush returns for a slot of occupant N is
\* the one its press state selects in the updated registry entry: the updated
\* up face when the slot is Up or N has no down face, the down face of N when
\* the slot is Down.
C23_ResolvedAtFlush ==
    [][UpFaceCall =>
        IF result'.button_name \in DOMAIN app_state.named_buttons
        THEN /\ UpFaceStored
             /\ SlotsAfterUpFace(LAMBDA id :
                    Unwrap(FaceOf(app_state'.named_buttons, result'.button_name,
                                  app_state'.buttons[id].press_state)))
        ELSE UpFaceRefused]_vars

\* The up face of page1_a got a new color while the slot it occupies was
\* rendered and Up, and a slot of another occupant was rendered too.
C23_Witness ==
    /\ result.op = "set_named_button_up_face"
    /\ ~IsSome(result.err)
    /\ result.button_name = "page1_a"
    /\ Unwrap(app_state.named_buttons["page1_a"].up_face).color = Some("#FFFFFF")
    /\ \E id \in Slots :
        /\ uses_button(app_state.buttons[id], "page1_a")
        /\ app_state.buttons[id].press_state = "Up"
        /\ app_state.buttons[id].render_state = None
    /\ \E id \in Slots :
        /\ ~uses_button(app_state.buttons[id], "page1_a")
        /\ IsSome(app_state.buttons[id].render_state)

\* The name "ghost" occupies a slot but is in no registry: the call failed.
C23_WitnessRefused ==
    /\ result.op = "set_named_button_up_face"
    /\ result.err = Some([kind |-> "ButtonNotFound", name |-> "ghost"])
    /\ \E id \in Slots : uses_button(app_state.buttons[id], "ghost")

\* ------------------------------------------------------------------------
\* The face a flush returns
\* ------------------------------------------------------------------------

\* The step is a flush.
FlushCall == result'.op = "flush" /\ steps' = steps + 1

\* The entries the flush returned for a slot.
EntriesFor(id) == {entry \in FaceEntries(result'.faces) : entry.id = id}

\* C24: for a slot that needs rendering and whose setup is s, the flush
\* returns the up face of s when the slot is Up and the down face when it is
\* Down; when s has not that face, the other one; when s has no face, no
\* entry. A slot that does not need rendering gets no entry.
C24_FaceByPressState ==
    [][FlushCall =>
        \A id \in Slots :
            LET button == app_state.buttons[id]
                s == get_setup(button, app_state.named_buttons)
                up == Unwrap(s).up_face
                down == Unwrap(s).down_face
                faces == {entry.face : entry \in EntriesFor(id)}
            IN  /\ Cardinality(EntriesFor(id)) <= 1
                /\ ~needs_rendering(button) => faces = {}
                /\ needs_rendering(button) /\ IsSome(s) =>
                    /\ button.press_state = "Up" /\ IsSome(up) =>
                        faces = {Unwrap(up)}
                    /\ button.press_state = "Up" /\ ~IsSome(up) /\ IsSome(down) =>
                        faces = {Unwrap(down)}
                    /\ button.press_state = "Down" /\ IsSome(down) =>
                        faces = {Unwrap(down)}
                    /\ button.press_state = "Down" /\ ~IsSome(down) /\ IsSome(up) =>
                        faces = {Unwrap(up)}
                    /\ ~IsSome(up) /\ ~IsSome(down) => faces = {}]_vars

\* A flush that returned a down face for a Down slot, an up face for another
\* Down slot whose setup has no down face, and nothing for a slot it marked
\* rendered whose setup has no face at all.
C24_Witness ==
    /\ result.op = "flush"
    /\ \E id \in Slots :
        LET s == get_setup(app_state.buttons[id], app_state.named_buttons)
        IN  /\ app_state.buttons[id].press_state = "Down"
            /\ IsSome(s) /\ IsSome(Unwrap(s).down_face) /\ IsSome(Unwrap(s).up_face)
            /\ [id |-> id, face |-> Unwrap(Unwrap(s).down_face)]
                    \in FaceEntries(result.faces)
    /\ \E id \in Slots :
        LET s == get_setup(app_state.buttons[id], app_state.named_buttons)
        IN  /\ IsSome(s) /\ ~IsSome(Unwrap(s).down_face) /\ ~IsSome(Unwrap(s).up_face)
            /\ app_state.buttons[id].render_state = Some("Up")
            /\ \A entry \in FaceEntries(result.faces) : entry.id # id

\* A flush that returned the up face for a Down slot whose setup has no down
\* face.
C24_WitnessFallback ==
    /\ result.op = "flush"
    /\ \E id \in Slots :
        LET s == get_setup(app_state.buttons[id], app_state.named_buttons)
        IN  /\ app_state.buttons[id].press_state = "Down"
            /\ IsSome(s) /\ ~IsSome(Unwrap(s).down_face) /\ IsSome(Unwrap(s).up_face)
            /\ [id |-> id, face |-> Unwrap(Unwrap(s).up_face)]
                    \in FaceEntries(result.faces)

\* ------------------------------------------------------------------------
\* The foreground-window observers
\* ------------------------------------------------------------------------

\* The windows the callback of observer i was called with, in order.
Delivered(i) ==
    LET calls == SelectSeq(trace, LAMBDA entry : entry.cb = i)
    IN  [k \in 1 .. Len(calls) |-> calls[k].window]

\* Observer i enters its loop in this step.
EntersLoop(i) == observers[i].pc # "loop" /\ observers'[i].pc = "loop"

\* When observer i enters its loop with a window in the foreground, its
\* callback has been called once, with that window.
InitialEmission(i) ==
    EntersLoop(i) /\ active_window # 0 => Delivered(i)' = <<active_window>>

\* No callback is called twice in a row with the same window.
NoRepeatedWindow(i) ==
    \A k \in 1 .. Len(Delivered(i)) - 1 : Delivered(i)[k] # Delivered(i)[k + 1]

\* Only observer i has been started.
Alone(i) == \A j \in ObserverIds \ {i} : observers[j].pc = "idle"

\* C25 as stated, for an observer that is the only one started: its callback
\* is called once at initialization with the window in the foreground, and
\* never twice in a row with the same window.
C25_AsStated ==
    /\ [](\A i \in ObserverIds : Alone(i) => NoRepeatedWindow(i))
    /\ [][\A i \in ObserverIds : Alone(i) => InitialEmission(i)]_vars

\* The linux observer does both, and once it has handled every notification
\* the last window it reported is the one in the foreground.
C25_OnLinux ==
    /\ [](target_os = "linux" =>
            \A i \in ObserverIds :
                /\ NoRepeatedWindow(i)
                /\ observers[i].pc = "loop" /\ observers[i].events = <<>> =>
                    /\ observers[i].last_active_window = active_window
                    /\ Delivered(i) # <<>> =>
                        Delivered(i)[Len(Delivered(i))] = active_window)
    /\ [][target_os = "linux" => \A i \in ObserverIds : InitialEmission(i)]_vars

\* The windows observer calls its callback for foreground events only: when
\* it enters its loop nothing has been delivered.
C25_WindowsNoInitialEmission ==
    [][target_os = "windows" =>
        \A i \in ObserverIds : Alone(i) /\ EntersLoop(i) => Delivered(i)' = <<>>]_vars

\* The observers that are registered: they are in their loop.
Registered == {i \in ObserverIds : observers[i].pc = "loop"}

\* Observer i, on its way through the registration, takes this step.
Registers(i) ==
    /\ observers[i].pc \in {"idle", "store"}
    /\ observers'[i].pc # observers[i].pc

\* C26 as stated: a registration made while another observer is registered
\* fails with AlreadyStarted and leaves the stored callback in place, and at
\* most one observer is registered at any time.
C26_AsStated ==
    /\ [](target_os = "windows" =>
            /\ Cardinality(Registered) <= 1
            /\ \A i \in Registered : WINDOW_FOREGROUND_CALLBACK = Some(i))
    /\ [][target_os = "windows" =>
            \A i \in ObserverIds :
                Registers(i) /\ Registered \ {i} # {} =>
                    /\ observers'[i].pc = "failed"
                    /\ result' = ObserverReturn(i, Some("AlreadyStarted"))
                    /\ WINDOW_FOREGROUND_CALLBACK' = WINDOW_FOREGROUND_CALLBACK]_vars

\* A call that reads a stored callback fails with AlreadyStarted and leaves
\* it in place.
C26_WhenSeenStored ==
    [][target_os = "windows" =>
        \A i \in ObserverIds :
            /\ observers[i].pc = "idle"
            /\ observers'[i].pc # "idle"
            /\ IsSome(WINDOW_FOREGROUND_CALLBACK)
            => /\ observers'[i].pc = "failed"
               /\ result' = ObserverReturn(i, Some("AlreadyStarted"))
               /\ WINDOW_FOREGROUND_CALLBACK' = WINDOW_FOREGROUND_CALLBACK]_vars

\* A call failed with AlreadyStarted while the other observer was in its loop.
C26_WitnessRefused ==
    /\ target_os = "windows"
    /\ \E i \in ObserverIds :
        /\ observers[i].pc = "failed"
        /\ result = ObserverReturn(i, Some("AlreadyStarted"))
        /\ Registered # {}
        /\ IsSome(WINDOW_FOREGROUND_CALLBACK)
        /\ Unwrap(WINDOW_FOREGROUND_CALLBACK) \in Registered

\* ------------------------------------------------------------------------
\* Colors given as hex strings
\* ------------------------------------------------------------------------

\* The string is "#" followed by exactly 6 or exactly 8 hexadecimal digits.
IsHexColor(hex) ==
    /\ Len(hex) \in {7, 9}
    /\ hex[1] = "#"
    /\ \A k \in 2 .. Len(hex) : IsSome(to_digit(hex[k]))

\* The byte two hexadecimal digits stand for.
ByteAt(hex, k) == 16 * Unwrap(to_digit(hex[k])) + Unwrap(to_digit(hex[k + 1]))

\* The color of a hex color string.
ColorOf(hex) ==
    ColorOk(ByteAt(hex, 2), ByteAt(hex, 4), ByteAt(hex, 6),
            IF Len(hex) = 9 THEN ByteAt(hex, 8) ELSE 255)

\* C27 as stated: the conversion succeeds exactly for "#" followed by 6 or 8
\* hexadecimal digits, with (RR, GG, BB) and alpha 255 or (RR, GG, BB, AA);
\* every other string, the empty one too, gives InvalidColorHexString.
C27_AsStated ==
    result.op = "hex_string_to_rgba_color" =>
        Unwrap(result.ret) = IF IsHexColor(result.hex) THEN ColorOf(result.hex)
                             ELSE InvalidColorHexString

\* The strings the conversion does not treat as the sentence says: the ones
\* it cannot slice, the ones with more than one "#" in front, the ones with
\* a "+" after the "#".
Mistreated(hex) ==
    \/ SlicePanics(hex)
    \/ Len(hex) >= 2 /\ hex[1] = "#" /\ hex[2] \in {"#", "+"}

\* On every other string the conversion does what the sentence says.
C27_ExceptMistreated ==
    result.op = "hex_string_to_rgba_color" /\ ~Mistreated(result.hex) =>
        Unwrap(result.ret) = IF IsHexColor(result.hex) THEN ColorOf(result.hex)
                             ELSE InvalidColorHexString

\* "#0FF000Fa" was converted.
C27_Witness8 ==
    /\ result.op = "hex_string_to_rgba_color"
    /\ result.hex = <<"#", "0", "F", "F", "0", "0", "0", "F", "a">>
    /\ Unwrap(result.ret) = ColorOk(15, 240, 0, 250)

\* The empty string makes the conversion panic.
C27_EmptyPanics ==
    result.op = "hex_string_to_rgba_color" /\ result.hex = <<>> =>
        Unwrap(result.ret) = ColorPanic

\* "##" and "#+" in front of digits are accepted.
C27_WitnessAccepted ==
    /\ result.op = "hex_string_to_rgba_color"
    /\ result.hex = <<"#", "+", "F", "F", "0", "0", "0">>
    /\ Unwrap(result.ret) = ColorOk(15, 240, 0, 255)

\* ------------------------------------------------------------------------
\* C28
\* ------------------------------------------------------------------------

\* A face was drawn that names no image file and no text.
PlainFaceDrawn ==
    /\ result.op = "ButtonFace::from_config"
    /\ Unwrap(result.ret).tag = "Ok"
    /\ result.face_config.file = None
    /\ result.face_config.label = None
    /\ result.face_config.sublabel = None
    /\ result.face_config.superlabel = None

\* The background a plain face is to show: the color the face names, else
\* the one the defaults name, else opaque black.
BackgroundOf(face_config, defaults) ==
    IF IsSome(face_config.color)
    THEN to_image_rgba_color(Unwrap(face_config.color)).rgba
    ELSE IF IsSome(defaults) /\ IsSome(Unwrap(defaults).background_color)
         THEN to_image_rgba_color(Unwrap(Unwrap(defaults).background_color)).rgba
         ELSE <<0, 0, 0, 255>>

\* C28: a face with no image and no text is drawn as an image of the
\* device's button-image width and height, and every pixel of it has the
\* red, green and blue of the face's background color, or of the default
\* background color (opaque black when the defaults name none) when the
\* face names none.
C28_PlainFace ==
    PlainFaceDrawn =>
        LET face == Unwrap(Unwrap(result.ret).value).face
            back == BackgroundOf(result.face_config, result.defaults)
        IN  /\ face.width = result.device_type.button_image_size[1]
            /\ face.height = result.device_type.button_image_size[2]
            /\ DOMAIN face.pixels =
                 (0 .. face.width - 1) \X (0 .. face.height - 1)
            /\ \A p \in DOMAIN face.pixels :
                 face.pixels[p] = <<back[1], back[2], back[3]>>
            /\ face.texts = <<>>

\* A plain face that names its own color is drawn over defaults that name
\* another one, on an image of more than one pixel.
C28_Witness ==
    /\ PlainFaceDrawn
    /\ result.device_type.button_image_size = <<MaxImageSize, MaxImageSize>>
    /\ result.face_config.color = Some(RGB(1, 2, 3))
    /\ IsSome(result.defaults)
    /\ Unwrap(result.defaults).background_color =
         Some(HEXString(<<"#", "F", "F", "0", "0", "0", "0">>))
    /\ Unwrap(Unwrap(result.ret).value).face.pixels[<<1, 1>>] = <<1, 2, 3>>

\* A plain face that names no color is drawn without defaults: black.
C28_WitnessBlack ==
    /\ PlainFaceDrawn
    /\ result.face_config.color = None
    /\ result.defaults = None
    /\ Unwrap(Unwrap(result.ret).value).face.pixels[<<0, 0>>] = <<0, 0, 0>>

\* ------------------------------------------------------------------------
\* C29
\* ------------------------------------------------------------------------

\* The default_pages list of the configuration construction was given.
ConfiguredDefaultPages ==
    IF IsSome(result.config.default_pages)
    THEN Unwrap(result.config.default_pages) ELSE <<>>

\* The positions of the list that name no configured page.
UnknownDefaults ==
    {k \in DOMAIN ConfiguredDefaultPages :
        \A i \in DOMAIN result.config.pages :
            result.config.pages[i].name # ConfiguredDefaultPages[k]}

\* C29: after a successful construction the page stack is the default_pages
\* list in its order, every slot holds the occupant of the last default page
\* binding it and "empty" when no default page binds it, and every slot is
\* Up with an absent render-cache; construction fails with PageNotFound,
\* naming the first such page, exactly when a default page name is not a
\* configured page.
C29_DefaultPages ==
    result.op = "from_config" =>
        /\ Constructed <=> UnknownDefaults = {}
        /\ Constructed =>
            /\ Unwrap(app_state).loaded_pages = ConfiguredDefaultPages
            /\ \A id \in Slots :
                LET button == Unwrap(app_state).buttons[id]
                IN  /\ button.setup =
                         Name(StackWinner(Unwrap(app_state).pages,
                                          ConfiguredDefaultPages, id))
                    /\ button.press_state = "Up"
                    /\ button.render_state = None
        /\ ~Constructed =>
            LET first == CHOOSE k \in UnknownDefaults :
                             \A j \in UnknownDefaults : k <= j
            IN  result.err = Some([kind |-> "PageNotFound",
                                   name |-> ConfiguredDefaultPages[first]])

\* Construction with two default pages: the first slot, bound by both,
\* holds the occupant of page1, the later one, and the last slot that of
\* page0.
C29_Witness ==
    /\ Constructed
    /\ ConfiguredDefaultPages = <<"page0", "page1">>
    /\ Unwrap(app_state).loaded_pages = <<"page0", "page1">>
    /\ Unwrap(app_state).buttons[0].setup = Name("page1_a")
    /\ Unwrap(app_state).buttons[total_num_buttons - 1].setup # Name("empty")
    /\ Unwrap(app_state).buttons[total_num_buttons - 1].setup # Name("page1_b")

\* Construction with an unknown default page after a known one fails.
C29_WitnessNotFound ==
    /\ result.op = "from_config"
    /\ ConfiguredDefaultPages = <<"page1", "unknown_page">>
    /\ result.err = Some([kind |-> "PageNotFound", name |-> "unknown_page"])

\* Construction with a page that binds only some slots: the others hold
\* "empty".
C29_WitnessEmpty ==
    /\ Constructed
    /\ ConfiguredDefaultPages = <<"page1">>
    /\ \E id \in Slots : Unwrap(app_state).buttons[id].setup = Name("empty")

\* ------------------------------------------------------------------------
\* C30
\* ------------------------------------------------------------------------

\* A color of the configuration that is no color.
BadColor(color) ==
    /\ IsSome(color)
    /\ Unwrap(color).tag = "HEXString"
    /\ ~IsHexColor(Unwrap(color).hex)

\* A label of the configuration whose color is no color.
BadLabel(label) ==
    IsSome(label) /\ Unwrap(label).tag = "WithColor" /\ BadColor(Unwrap(label).color)

\* A face of the configuration with a malformed color or an image file that
\* cannot be opened or decoded.
BadFace(face) ==
    /\ IsSome(face)
    /\ \/ BadColor(Unwrap(face).color)
       \/ BadLabel(Unwrap(face).label)
       \/ BadLabel(Unwrap(face).sublabel)
       \/ BadLabel(Unwrap(face).superlabel)
       \/ /\ IsSome(Unwrap(face).file)
          /\ Unwrap(face).file \notin {Some("icon"), Some("glass")}

\* A handler of the configuration whose file cannot be read.
BadHandler(handler_config) ==
    /\ IsSome(handler_config)
    /\ "file" \in DOMAIN Unwrap(handler_config)
    /\ Unwrap(handler_config).file # "handler.py"

\* A button of the configuration with such a face or handler.
Defective(button_config) ==
    \/ BadFace(button_config.up_face)
    \/ BadFace(button_config.down_face)
    \/ BadHandler(button_config.up_handler)
    \/ BadHandler(button_config.down_handler)

\* The declared named buttons of the configuration that are defective.
DefectiveDeclared(config) ==
    IF IsSome(config.buttons)
    THEN {i \in DOMAIN Unwrap(config.buttons) : Defective(Unwrap(config.buttons)[i])}
    ELSE {}

\* The pages of the configuration with a defective inline button.
DefectivePages(config) ==
    {k \in DOMAIN config.pages :
        \E i \in DOMAIN config.pages[k].buttons :
            /\ config.pages[k].buttons[i].button.tag = "Button"
            /\ Defective(config.pages[k].buttons[i].button.setup)}

\* The errors from_config returns.
ReturnedErrors ==
    {"ConfigError", "ImageOpeningError", "ImageEncodingError", "LoadScriptFailed",
     "DuplicateNamedButton", "PageNotFound"}

\* The configuration has a color that is the empty string.
HasEmptyColor(config) ==
    \E k \in DOMAIN config.pages :
        \E i \in DOMAIN config.pages[k].buttons :
            LET setup == config.pages[k].buttons[i].button.setup
            IN  /\ IsSome(setup.up_face)
                /\ Unwrap(setup.up_face).color = Some(HEXString(<<>>))

\* C30, as stated: from_config never panics, and a configuration with a
\* malformed color, an unreadable image or an unreadable handler file in a
\* declared named button or in an inline button of a page is reported as a
\* returned error.
C30_AsStated ==
    result.op = "from_config" =>
        /\ result.tag # "panic"
        /\ (DefectiveDeclared(result.config) # {}
                \/ DefectivePages(result.config) # {})
             => result.tag \in ReturnedErrors

\* A defect in an inline button of a page, with well-formed defaults and
\* declared buttons, is returned as an error, unless the color is the empty
\* string, whose conversion panics.
C30_InlineDefectsReturned ==
    (/\ result.op = "from_config"
     /\ ~BadColor(AndThenField(result.config.defaults, "background_color"))
     /\ DefectiveDeclared(result.config) = {}
     /\ DefectivePages(result.config) # {}
     /\ ~HasEmptyColor(result.config))
        => result.tag \in ReturnedErrors

\* A defect in the first declared named button, with well-formed defaults,
\* ends from_config with a panic.
C30_DeclaredDefectsPanic ==
    (/\ result.op = "from_config"
     /\ ~BadColor(AndThenField(result.config.defaults, "background_color"))
     /\ 1 \in DefectiveDeclared(result.config))
        => result.tag = "panic"

\* from_config panicked on a malformed color of a declared named button
\* with everything else well-formed.
C30_WitnessPanic ==
    /\ result.op = "from_config"
    /\ result.tag = "panic"
    /\ result.config.defaults = None
    /\ DefectivePages(result.config) = {}
    /\ IsSome(result.config.buttons)
    /\ Unwrap(result.config.buttons)[1].up_face =
         Some([GoodFaceConfig EXCEPT !.color = MalformedColor])

\* from_config returned ConfigError for the same defect in an inline button.
C30_WitnessReturned ==
    /\ result.op = "from_config"
    /\ result.tag = "ConfigError"
    /\ result.config.defaults = None
    /\ DefectiveDeclared(result.config) = {}
    /\ result.config.pages[1].buttons[1].button.setup.up_face =
         Some([GoodFaceConfig EXCEPT !.color = MalformedColor])

\* ------------------------------------------------------------------------
\* Handlers that use the state object
\* ------------------------------------------------------------------------

\* The control thread is running, or has just run, a script that calls a
\* pymethod of the state object.
StateCallRunning ==
    \/ result.op \in {"state.load_page", "state.set_named_button_up_face"}
    \/ result.op = "init" /\ IsSome(result.handler)

\* C31: a handler the control loop runs (the init handler, a press handler or
\* a release handler) that calls state.load_page or
\* state.set_named_button_up_face gets the AppState, returns, and the loop
\* goes on to its next flush.
C31_AsStated == StateCallRunning => pc = "flush"

\* What the code does instead: every such handler stops the control thread,
\* and the AppState is as it was before the handler ran.
C31_EveryStateCallStops ==
    /\ [](StateCallRunning => Stopped)
    /\ [][StateCallRunning' /\ ~StateCallRunning => app_state' = app_state]_vars

\* The three cases: the init handler, a press handler that switches the page
\* and a release handler that recolors a named button.
C31_WitnessInit == result.op = "init" /\ IsSome(result.handler) /\ Stopped

C31_WitnessLoadPage ==
    /\ result.op = "state.load_page"
    /\ pc = "blocked"
    /\ \E i \in 1 .. Len(trace) :
        trace[i].op = "apply" /\ trace[i].e.type = "ButtonDownEvent"

C31_WitnessSetUpFace ==
    /\ result.op = "state.set_named_button_up_face"
    /\ pc = "panicked"
    /\ \E i \in 1 .. Len(trace) :
        trace[i].op = "apply" /\ trace[i].e.type = "ButtonUpEvent"

\* ------------------------------------------------------------------------
\* The page stack as a set of names
\* ------------------------------------------------------------------------

\* C32: the page stack never holds the same page name more than once, so its
\* length is at most the number of configured pages.
C32_AsStated ==
    /\ \A n \in DOMAIN app_state.pages : Count(app_state.loaded_pages, n) <= 1
    /\ Len(app_state.loaded_pages) <= Cardinality(DOMAIN app_state.pages)

\* What the code does instead: every successful load_page makes the stack one
\* entry longer, whether or not the page is in it, and a window event adds
\* one entry per matching condition; the stack holds configured names only.
C32_EveryLoadPushes ==
    /\ [][/\ (result'.op = "load_page" /\ ~IsSome(result'.err)) =>
                app_state'.loaded_pages
                    = Append(app_state.loaded_pages, result'.page_name)
          /\ result'.op = "on_foreground_window" =>
                \A n \in DOMAIN app_state.pages \ Listed(result'.pages_to_unload) :
                    Count(app_state'.loaded_pages, n)
                        = Count(app_state.loaded_pages, n)
                          + Count(result'.pages_to_load, n)
         ]_vars
    /\ [](Listed(app_state.loaded_pages) \subseteq DOMAIN app_state.pages)

\* A page loaded directly while it is loaded.
C32_WitnessDirect ==
    /\ result.op = "load_page"
    /\ ~IsSome(result.err)
    /\ Count(app_state.loaded_pages, result.page_name) = 2

\* One window event that matches two conditions of a page that was not
\* loaded before.
C32_WitnessOneEvent ==
    /\ result.op = "on_foreground_window"
    /\ steps = 1
    /\ \E n \in DOMAIN app_state.pages :
        /\ Count(result.pages_to_load, n) = 2
        /\ Count(app_state.loaded_pages, n) = 2

\* The stack longer than the number of configured pages.
C32_WitnessLong ==
    Len(app_state.loaded_pages) > Cardinality(DOMAIN app_state.pages)

\* ------------------------------------------------------------------------
\* Pages a window event lists for loading and for unloading
\* ------------------------------------------------------------------------

\* The pages a window event lists in both of its lists.
ListedForBoth(call) == Listed(call.pages_to_load) \cap Listed(call.pages_to_unload)

\* The loaded pages flagged unload-if-not-matching that have several
\* conditions, at least one of which matches the window.
PartlyMatching(self, window_info) ==
    {n \in MatchingPages(self.pages, window_info) :
        /\ self.pages[n].unload_if_not_loaded
        /\ Len(self.pages[n].on_foreground_window) > 1
        /\ Count(self.loaded_pages, n) > 0}

\* C33: one on_foreground_window call lists no page both for loading and for
\* unloading; a loaded page flagged unload-if-not-matching with several
\* conditions, one of which matches the window, is in the page stack when
\* the call returns.
C33_AsStated ==
    [][result'.op = "on_foreground_window" =>
        /\ ListedForBoth(result') = {}
        /\ \A n \in PartlyMatching(app_state, Unwrap(result'.window)) :
                Count(app_state'.loaded_pages, n) > 0
      ]_vars

\* What the code does instead: a page is listed for both exactly when it is
\* loaded, flagged, and has a matching and a non-matching condition; such a
\* page is not in the stack when the call returns.
C33_ListedPerCondition ==
    [][result'.op = "on_foreground_window" =>
        /\ \A n \in DOMAIN app_state.pages :
                n \in ListedForBoth(result') <=>
                    /\ n \in PartlyMatching(app_state, Unwrap(result'.window))
                    /\ \E k \in DOMAIN app_state.pages[n].on_foreground_window :
                        ~matches(app_state.pages[n].on_foreground_window[k],
                                 Unwrap(result'.window))
        /\ \A n \in ListedForBoth(result') :
                Count(app_state'.loaded_pages, n) = 0
      ]_vars

\* A loaded page with one matching and one non-matching condition was
\* listed for both and is gone from the stack.
C33_WitnessBoth ==
    /\ result.op = "on_foreground_window"
    /\ ListedForBoth(result) = {"page2"}
    /\ Count(app_state.loaded_pages, "page2") = 0

\* A loaded page with both of its conditions matching stays in the stack.
C33_WitnessAllMatch ==
    /\ result.op = "on_foreground_window"
    /\ Count(result.pages_to_load, "page2") = 2
    /\ ListedForBoth(result) = {}
    /\ Count(app_state.loaded_pages, "page2") = 3

\* ------------------------------------------------------------------------
\* A page that binds one slot twice
\* ------------------------------------------------------------------------

\* page0 with two bindings for the first slot: column 1 is the first slot of
\* a row, and column 5, which the device does not have, is clamped to it.
OverlayPage0Config ==
    [name |-> "page0",
     on_app |-> None,
     buttons |->
        <<InlineButton(0, 1, Some("twice_a"),
              Some(FaceConfig(Some("#FF0000"), None)), None, None, None),
          InlineButton(0, 5, Some("twice_b"),
              Some(FaceConfig(Some("#00FF00"), None)), None, None, None)>>]

OverlayConfig ==
    [buttons |-> None,
     pages |-> <<OverlayPage0Config, Page1Config>>,
     init_script |-> None,
     default_pages |-> None]

OverlayInit ==
    /\ \E r \in from_config(OverlayConfig) :
        /\ ~IsSome(r.err)
        /\ app_state = r.self
    /\ result = [NoCall EXCEPT !.op = "from_config"]
    /\ steps = 0
    /\ trace = <<>>
    /\ NoThreads

OverlaySpec == OverlayInit /\ [][Next]_vars

\* The occupant of a slot after page Q is loaded over the state and then
\* unloaded.
AfterOverlay(self, Q, id) ==
    unload_page(load_page(self, Q).self, Q).self.buttons[id].setup

\* The state is the one load_page(P) has returned for a configured page.
JustLoaded == result.op = "load_page" /\ ~IsSome(result.err)

\* The slots page P shares with page Q.
SharedSlots(self, P, Q) == PageClaims(self.pages[P]) \cap PageClaims(self.pages[Q])

\* C34: load_page and the stack replay of unload_page choose the same
\* binding of a page: the occupant a slot has right after load_page(P) is
\* the occupant it has after another page claiming the slot is loaded over
\* P and unloaded.
C34_AsStated ==
    JustLoaded =>
        \A Q \in DOMAIN app_state.pages \ {result.page_name} :
            \A id \in SharedSlots(app_state, result.page_name, Q) :
                AfterOverlay(app_state, Q, id) = app_state.buttons[id].setup

\* The last binding of a page for a slot, and the first one.
LastBinding(page, id) ==
    page.buttons[CHOOSE k \in DOMAIN page.buttons :
        /\ to_button_index(page.buttons[k].position) = id
        /\ \A l \in DOMAIN page.buttons :
            to_button_index(page.buttons[l].position) = id => l <= k].button_name

FirstBinding(page, id) ==
    page.buttons[CHOOSE k \in DOMAIN page.buttons :
        /\ to_button_index(page.buttons[k].position) = id
        /\ \A l \in DOMAIN page.buttons :
            to_button_index(page.buttons[l].position) = id => k <= l].button_name

\* What the code does instead: load_page leaves the last binding of the page
\* in the slot, the replay puts the first one there; the two agree when the
\* page binds the slot once.
C34_LoadLastReplayFirst ==
    JustLoaded =>
        LET P == app_state.pages[result.page_name]
        IN  /\ \A id \in PageClaims(P) :
                app_state.buttons[id].setup = Name(LastBinding(P, id))
            /\ \A Q \in DOMAIN app_state.pages \ {result.page_name} :
                \A id \in SharedSlots(app_state, result.page_name, Q) :
                    AfterOverlay(app_state, Q, id) = Name(FirstBinding(P, id))

\* page0 was loaded, page1 loaded over it and unloaded: the first slot, which
\* held the second binding of page0 after the load, holds the first one.
C34_WitnessReplayed ==
    /\ steps = 3
    /\ result.op = "unload_page" /\ result.page_name = "page1"
    /\ app_state.loaded_pages = <<"page0">>
    /\ app_state.buttons[0].setup = Name("twice_a")

C34_WitnessLoaded ==
    /\ steps = 1
    /\ JustLoaded /\ result.page_name = "page0"
    /\ app_state.buttons[0].setup = Name("twice_b")
    /\ AfterOverlay(app_state, "page1", 0) = Name("twice_a")

\* ------------------------------------------------------------------------
\* Window events and the iteration order of the page map
\* ------------------------------------------------------------------------

\* What a window event leaves behind: the page stack and the occupants.
Outcome(self) ==
    [loaded_pages |-> self.loaded_pages,
     setups |-> [id \in DOMAIN self.buttons |-> self.buttons[id].setup]]

\* The outcomes on_foreground_window can have in a state for a window, one
\* per iteration order of self.pages.
Outcomes(self, window_info) ==
    {Outcome(on_foreground_window(self, window_info, c).self) :
        c \in PagesToLoadAndUnload(self, window_info)}

\* C35: for a fixed AppState and a fixed window, on_foreground_window leaves
\* the same occupants and the same page stack whatever the order in which
\* the pages are visited.
C35_AsStated ==
    [][result'.op = "on_foreground_window" =>
        Outcomes(app_state, Unwrap(result'.window)) = {Outcome(app_state')}
      ]_vars

\* The slots claimed by two or more of the pages.
Contested(pages, names) ==
    {id \in Slots : \E n, m \in names :
        n # m /\ id \in PageClaims(pages[n]) /\ id \in PageClaims(pages[m])}

\* What does not depend on the order: how often each page is in the stack,
\* and the occupant of every slot that at most one matching page claims;
\* with at most one page matching there is one outcome.
C35_SameUpToOrder ==
    \A window_info \in Windows :
        LET matching == MatchingPages(app_state.pages, window_info)
        IN  /\ \A o1, o2 \in Outcomes(app_state, window_info) :
                /\ \A n \in DOMAIN app_state.pages :
                    Count(o1.loaded_pages, n) = Count(o2.loaded_pages, n)
                /\ \A id \in Slots \ Contested(app_state.pages, matching) :
                    o1.setups[id] = o2.setups[id]
            /\ Cardinality(matching) <= 1 =>
                    Cardinality(Outcomes(app_state, window_info)) = 1

\* The same window event on the same state with page1 visited before page2,
\* and with page2 visited before page1: the first slot, which both bind, has
\* the occupant of the page visited last.
C35_WitnessPage2Last ==
    /\ result.op = "on_foreground_window" /\ steps = 1
    /\ app_state.loaded_pages = <<"page1", "page2", "page2">>
    /\ app_state.buttons[0].setup = Name("named_button0")

C35_WitnessPage1Last ==
    /\ result.op = "on_foreground_window" /\ steps = 1
    /\ app_state.loaded_pages = <<"page2", "page2", "page1">>
    /\ app_state.buttons[0].setup = Name("page1_a")

\* ------------------------------------------------------------------------
\* Page switches under a pressed slot
\* ------------------------------------------------------------------------

\* The calls that replace occupants.
PageSwitches == {"load_page", "unload_page", "on_foreground_window"}

\* C36: load_page, unload_page and on_foreground_window leave the press state
\* of every slot as it is; the flush that follows a page switch returns, for
\* a slot that is Down and whose occupant was written, the down face of the
\* occupant it has now (its up face when it has no down face); a release
\* returns the up-handler of the occupant the slot has at the release.
C36_PressStateKept ==
    [][/\ result'.op \in PageSwitches =>
            \A id \in Slots :
                app_state'.buttons[id].press_state = app_state.buttons[id].press_state
       /\ (result.op \in PageSwitches /\ result'.op = "flush") =>
            \A id \in Slots :
                (app_state.buttons[id].press_state = "Down"
                 /\ app_state.buttons[id].render_state = None) =>
                    LET face == FaceOf(app_state.named_buttons,
                                       app_state.buttons[id].setup.name, "Down")
                    IN  IsSome(face) =>
                            [id |-> id, face |-> Unwrap(face)]
                                \in FaceEntries(result'.faces)
       /\ (result'.op = "on_button_released" /\ result'.button_id \in Slots) =>
            result'.handler = HandlerOf(app_state.named_buttons,
                                  app_state.buttons[result'.button_id].setup.name,
                                  "up_handler")
      ]_vars

\* The first slot was pressed under page0, page1 was loaded over it, and the
\* release returned the up-handler of page1's button.
C36_Witness ==
    /\ steps = 3
    /\ result.op = "on_button_released" /\ result.button_id = 0
    /\ app_state.loaded_pages = <<"page0", "page1">>
    /\ result.handler = Some([script |-> "on_page1_a_up"])

\* The same with a flush after the page switch: the slot is Down and the
\* flush returned the down face of page1's button.
C36_WitnessFlush ==
    /\ steps = 3
    /\ result.op = "flush"
    /\ app_state.loaded_pages = <<"page0", "page1">>
    /\ app_state.buttons[0].press_state = "Down"
    /\ [id |-> 0, face |-> Unwrap(app_state.named_buttons["page1_a"].down_face)]
            \in FaceEntries(result.faces)

\* A pressed slot whose occupant a window event took away.
C36_WitnessUnloaded ==
    /\ result.op = "on_foreground_window"
    /\ result.pages_to_unload # <<>>
    /\ \E id \in Slots :
        /\ app_state.buttons[id].press_state = "Down"
        /\ app_state.buttons[id].setup = Name("empty")

\* ------------------------------------------------------------------------
\* The layers of a face under update_values
\* ------------------------------------------------------------------------

\* ColoredText::update_values
ColoredText_update_values(self, label, color) ==
    [self EXCEPT !.text = IF IsSome(label) THEN Unwrap(label) ELSE @,
                 !.color = IF IsSome(color) THEN color ELSE @]

\* "self.label.map(|mut l| l.update_values(label, color))" read as an update
\* of the stored center label.
UpdateLabel(face, label, color) ==
    IF IsSome(label) \/ IsSome(color)
    THEN [face EXCEPT !.label =
            IF IsSome(@) THEN Some(ColoredText_update_values(Unwrap(@), label, color))
            ELSE @]
    ELSE face

\* ButtonFace::update_values with the three closures working on the stored
\* self.label instead of a value moved out of it: the label, the sublabel and
\* the superlabel arguments are applied to the center label, in this order.
update_values_in_place(self, values) ==
    UpdateLabel(
        UpdateLabel(
            UpdateLabel(update_values(self, values), values.label, values.labelcolor),
            values.sublabel, values.sublabelcolor),
        values.superlabel, values.superlabelcolor)

\* The faces that are updated: each layer absent or present.
StoredLabels(text) == {None, Some([color |-> Some("#111111"), text |-> text])}

StoredFaces ==
    {[color |-> color, file |-> None, label |-> label, sublabel |-> sublabel,
      superlabel |-> superlabel] :
        color \in {None, Some("#FF0000")}, label \in StoredLabels("center"),
        sublabel \in StoredLabels("sub"), superlabel \in StoredLabels("super")}

\* The arguments of update_values: each one absent or given.
GivenOrNot(v) == {None, Some(v)}

UpdateArgs ==
    {[color |-> color, file |-> None, label |-> label, labelcolor |-> labelcolor,
      sublabel |-> sublabel, sublabelcolor |-> sublabelcolor,
      superlabel |-> superlabel, superlabelcolor |-> superlabelcolor] :
        color \in GivenOrNot("#FFFFFF"),
        label \in GivenOrNot("new center"), labelcolor \in GivenOrNot("#AAAAAA"),
        sublabel \in GivenOrNot("new sub"), sublabelcolor \in GivenOrNot("#BBBBBB"),
        superlabel \in GivenOrNot("new super"),
        superlabelcolor \in GivenOrNot("#CCCCCC")}

FaceUpdateInit ==
    /\ \E face \in StoredFaces, values \in UpdateArgs :
        result = [op |-> "face", face |-> face, values |-> values, ret |-> face]
    /\ app_state = None
    /\ steps = 0
    /\ trace = <<>>
    /\ NoThreads

\* uf.update_values(color, file, label, labelcolor, sublabel, ...): the
\* closures get a value moved out of self.label, or the stored label.
UpdateValues ==
    /\ result.op = "face"
    /\ \E ret \in {update_values(result.face, result.values),
                    update_values_in_place(result.face, result.values)} :
        result' = [result EXCEPT !.op = "update_values", !.ret = ret]
    /\ UNCHANGED <<app_state, steps, trace, threads>>

FaceUpdateSpec == FaceUpdateInit /\ [][UpdateValues]_vars

\* A layer after an update with a text and a color argument: the given ones
\* replaced, the others kept; an absent layer stays absent.
LayerUpdated(layer, text, color) ==
    IF IsSome(layer)
    THEN Some(ColoredText_update_values(Unwrap(layer), text, color))
    ELSE layer

\* C37: update_values with a sublabel text or color changes the sublabel of
\* the face and leaves its center label and superlabel as they are; a
\* superlabel argument changes only the superlabel, a label argument only
\* the center label; what is not given is kept.
C37_AsStated ==
    result.op = "update_values" =>
        LET v == result.values
        IN  /\ result.ret.label = LayerUpdated(result.face.label, v.label, v.labelcolor)
            /\ result.ret.sublabel
                    = LayerUpdated(result.face.sublabel, v.sublabel, v.sublabelcolor)
            /\ result.ret.superlabel
                    = LayerUpdated(result.face.superlabel, v.superlabel,
                                   v.superlabelcolor)
            /\ result.ret.color = IF IsSome(v.color) THEN v.color ELSE result.face.color
            /\ result.ret.file = IF IsSome(v.file) THEN v.file ELSE result.face.file

\* What the code does instead: no argument changes the sublabel or the
\* superlabel; the center label is the only layer that can change, and then
\* by the label, the sublabel or the superlabel argument; color and file are
\* replaced when given and kept otherwise.
C37_OnlyCenterLabelTouched ==
    result.op = "update_values" =>
        LET v == result.values
        IN  /\ result.ret.sublabel = result.face.sublabel
            /\ result.ret.superlabel = result.face.superlabel
            /\ result.ret.label \in {result.face.label,
                                     update_values_in_place(result.face, v).label}
            /\ result.ret.color = IF IsSome(v.color) THEN v.color ELSE result.face.color
            /\ result.ret.file = IF IsSome(v.file) THEN v.file ELSE result.face.file

\* A face with all three layers was updated with a sublabel text only: its
\* sublabel is the old one.
C37_WitnessSublabelKept ==
    /\ result.op = "update_values"
    /\ result.values = [NoValues EXCEPT !.sublabel = Some("new sub")]
    /\ IsSome(result.face.label) /\ IsSome(result.face.superlabel)
    /\ result.face.sublabel = Some([color |-> Some("#111111"), text |-> "sub"])
    /\ result.ret.sublabel = result.face.sublabel
    /\ result.ret.label = result.face.label

\* The same update with the closure working on the stored label: the center
\* label has the text given for the sublabel.
C37_WitnessCenterOverwritten ==
    /\ result.op = "update_values"
    /\ result.values = [NoValues EXCEPT !.sublabel = Some("new sub")]
    /\ result.ret.sublabel = Some([color |-> Some("#111111"), text |-> "sub"])
    /\ result.ret.label = Some([color |-> Some("#111111"), text |-> "new sub"])

\* ------------------------------------------------------------------------
\* The callback after the observer has returned
\* ------------------------------------------------------------------------

\* foreground_window_observer has returned to this caller, with Ok or with
\* the error of the hook.
ObserverReturned(i) == observers[i].pc \in {"returned", "hook_failed"}

\* The step is a call of foreground_window_observer that is rejected with
\* AlreadyStarted while no other observer is in its message loop.
RejectedWithoutObserver(i) ==
    /\ observers[i].pc = "idle"
    /\ observers'[i].pc = "failed"
    /\ \A j \in ObserverIds \ {i} : observers[j].pc # "loop"

\* C38: when foreground_window_observer has returned, with success or with
\* a hook-registration error, its callback is no longer registered, and a
\* later call of foreground_window_observer is not rejected with
\* AlreadyStarted.
C38_AsStated ==
    /\ [](\A i \in ObserverIds :
            ObserverReturned(i) => WINDOW_FOREGROUND_CALLBACK # Some(i))
    /\ [][\A i \in ObserverIds : ~RejectedWithoutObserver(i)]_vars

\* What the code does instead: the return with Ok leaves no callback of the
\* caller behind, the return with the hook error leaves it in the static
\* until another observer overwrites or clears it, and a call is rejected
\* without an observer in its loop only after such a return.
C38_HookErrorKeepsCallback ==
    /\ [](\A i \in ObserverIds :
            observers[i].pc = "returned" => WINDOW_FOREGROUND_CALLBACK # Some(i))
    /\ [][\A i \in ObserverIds :
            /\ (observers[i].pc = "store" /\ observers'[i].pc = "hook_failed") =>
                    WINDOW_FOREGROUND_CALLBACK' = Some(i)
            /\ RejectedWithoutObserver(i) =>
                    \E j \in ObserverIds \ {i} :
                        /\ observers[j].pc = "hook_failed"
                        /\ WINDOW_FOREGROUND_CALLBACK = Some(j)
         ]_vars

\* The first observer returned the hook error, and the call of the second
\* one that followed was rejected with AlreadyStarted.
C38_WitnessRejected ==
    /\ observers[1].pc = "hook_failed"
    /\ observers[2].pc = "failed"
    /\ WINDOW_FOREGROUND_CALLBACK = Some(1)
    /\ result = ObserverReturn(2, Some("AlreadyStarted"))

\* The first observer returned Ok and the second one, called after that, is
\* in its message loop.
C38_WitnessAfterOk ==
    /\ observers[1].pc = "returned"
    /\ observers[2].pc = "loop"
    /\ WINDOW_FOREGROUND_CALLBACK = Some(2)
====
